---- MODULE Spec2Model ----
(***************************************************************************)
(* Model of the JCL test-file parsers of JCL_AT_Buddy.                     *)
(*                                                                         *)
(* A test file is a sequence of lines; a line is the sequence of its       *)
(* whitespace-separated words after strip(), so the empty sequence is a    *)
(* blank line and ' '.join(...) is concatenation of word sequences.  The   *)
(* regular expressions of the source are modelled by what they accept on   *)
(* such word sequences.                                                    *)
(***************************************************************************)
EXTENDS Integers, Sequences, FiniteSets, TLC

VARIABLES
    lines,                \* simple_parser_v2.parse_test_file: f.readlines()
    is_pre_2018,          \* format era of the file (year <= 2017)
    key_content,          \* content of the *_key.txt file, or NoFile
    answer_key,           \* mapping question number -> letter
    questions,            \* list of emitted records
    current_instruction,  \* instruction carried to the next records
    i,                    \* index of the main loop (1-based)
    pc,                   \* position in parse_test_file
    missing_keys,         \* diagnostic list printed at the end
    cwa_pc,               \* position in consolidate_jcl_data for one file
    cwa_answers,          \* consolidate_with_answers.parse_answer_key result
    cwa_questions,        \* data['questions'] of the file
    cwa_pos,              \* index of the question the loop of line 109 is at
    subject_stats,        \* subject_stats of consolidate_jcl_data
    sp_content,           \* simple_parser.parse_test_file: f.read()
    sp_is_pre_2018,       \* simple_parser: year <= 2017
    sp_key_content,       \* simple_parser: content of {stem}_key.txt, or NoFile
    sp_i,                 \* simple_parser: index into content (0-based)
    sp_state,             \* simple_parser: state of the state machine
    sp_current_instruction,
    sp_current_question_num,
    sp_current_question_text,
    sp_current_options,
    sp_current_option_text,
    sp_questions,         \* simple_parser: list of emitted records
    sp_pc,                \* simple_parser: position in parse_test_file
    fp_lines,             \* fixed_parser: content.split('\n')
    fp_is_pre_2018,       \* fixed_parser: year <= 2017
    fp_key_content,       \* fixed_parser: content of the *_key.txt file, or NoFile
    fp_i,                 \* fixed_parser: index of the line loop (1-based)
    fp_questions,         \* fixed_parser: list of emitted records
    fp_current_question,
    fp_current_section,
    fp_section_context,
    fp_current_instruction,
    fp_pc,                \* fixed_parser: position in convert_test_to_json_fixed
    fp_result,            \* fixed_parser: what convert_test_to_json_fixed returns
    fp_run,               \* fixed_parser: which run over the directory this is
    fp_first,             \* fixed_parser: what the first run returned
    sem_text_content,     \* semantic_parser.process_test_file: f.read()
    sem_key_content,      \* semantic_parser: content of the key file, or NoFile
    sem_answer_key,       \* semantic_parser: parse_answer_key(test_file_path)
    sem_lines,            \* semantic_parser: text_content.strip().split('\n')
    sem_is_pre_2018,      \* semantic_parser: the format detected in the content
    sem_i,                \* semantic_parser: index of the main loop (1-based)
    sem_questions,        \* semantic_parser: list of emitted records
    sem_current_instruction,
    sem_pc,               \* semantic_parser: position in process_test_file
    main_base_exists,     \* simple_parser_v2.main: base_dir.exists()
    test_files,           \* main: list(base_dir.rglob("*_test.txt"))
    main_idx,             \* main: index into sorted(test_files) (1-based)
    main_attempted,       \* main: the files parse_test_file was called on
    main_raised,          \* main: the passes that ended in the except clause
    main_saved,           \* main: the files whose parsed_questions.json was written
    success_count,
    error_count,
    main_pc,              \* main: position in main
    cj_files,             \* consolidate_jcl_data: what each year holds for the subject
    cj_year,              \* consolidate_jcl_data: index of the loop over years (1-based)
    cj_data,              \* consolidate_jcl_data: data['questions'] of the year
    cj_answer_key,        \* consolidate_jcl_data: parse_answer_key(questions_file)
    cj_pos,               \* consolidate_jcl_data: index of the loop of line 109 (1-based)
    all_questions,
    cj_stats,             \* consolidate_jcl_data: subject_stats of the subject
    cj_document,          \* consolidate_jcl_data: the consolidated document, once written
    cj_pc,                \* consolidate_jcl_data: position in the loop over years
    cl_instruction,       \* clean-up scripts: question['instruction'] of the record
    cl_question,          \* clean-up scripts: question['question'] of the record
    clean_log,            \* clean-up scripts: the runs so far, each with its field before and after
    pdf_pages,            \* pdf_to_text_improved: page.extract_text() of each page
    pdf_page,             \* pdf_to_text_improved: index of the loop over pdf.pages (1-based)
    pdf_text_content,     \* pdf_to_text_improved: text_content before clean_text
    pdf_txt_file,         \* pdf_to_text_improved: what is written to txt_path
    pdf_pc                \* pdf_to_text_improved: position in the function

vars == <<lines, is_pre_2018, key_content, answer_key, questions,
          current_instruction, i, pc, missing_keys,
          cwa_pc, cwa_answers, cwa_questions, cwa_pos, subject_stats,
          sp_content, sp_is_pre_2018, sp_key_content, sp_i, sp_state,
          sp_current_instruction, sp_current_question_num,
          sp_current_question_text, sp_current_options,
          sp_current_option_text, sp_questions, sp_pc,
          fp_lines, fp_is_pre_2018, fp_key_content, fp_i, fp_questions,
          fp_current_question, fp_current_section, fp_section_context,
          fp_current_instruction, fp_pc, fp_result, fp_run, fp_first,
          sem_text_content, sem_key_content, sem_answer_key, sem_lines,
          sem_is_pre_2018, sem_i, sem_questions, sem_current_instruction, sem_pc,
          main_base_exists, test_files, main_idx, main_attempted, main_raised,
          main_saved, success_count, error_count, main_pc,
          cj_files, cj_year, cj_data, cj_answer_key, cj_pos, all_questions,
          cj_stats, cj_document, cj_pc,
          cl_instruction, cl_question, clean_log,
          pdf_pages, pdf_page, pdf_text_content, pdf_txt_file, pdf_pc>>

cwaVars == <<cwa_pc, cwa_answers, cwa_questions, cwa_pos, subject_stats>>

parserVars == <<lines, is_pre_2018, questions, current_instruction, i, missing_keys>>

simpleVars == <<sp_content, sp_is_pre_2018, sp_key_content, sp_i, sp_state,
                sp_current_instruction, sp_current_question_num,
                sp_current_question_text, sp_current_options,
                sp_current_option_text, sp_questions, sp_pc>>

\* the variables of the parsers other than simple_parser_v2 and of no
\* concern to consolidate_with_answers
fixedVars == <<fp_lines, fp_is_pre_2018, fp_key_content, fp_i, fp_questions,
               fp_current_question, fp_current_section, fp_section_context,
               fp_current_instruction, fp_pc, fp_result, fp_run, fp_first>>

semanticVars == <<sem_text_content, sem_key_content, sem_answer_key, sem_lines,
                  sem_is_pre_2018, sem_i, sem_questions, sem_current_instruction,
                  sem_pc>>

mainVars == <<main_base_exists, test_files, main_idx, main_attempted, main_raised,
              main_saved, success_count, error_count, main_pc>>

consVars == <<cj_files, cj_year, cj_data, cj_answer_key, cj_pos,
              all_questions, cj_stats, cj_document, cj_pc>>

cleanVars == <<cl_instruction, cl_question, clean_log>>

pdfVars == <<pdf_pages, pdf_page, pdf_text_content, pdf_txt_file, pdf_pc>>

\* the variables of the batch driver and of the clean-up scripts
toolVars == <<mainVars, consVars, cleanVars, pdfVars>>

otherVars == <<simpleVars, fixedVars, semanticVars, toolVars>>

v2Vars == <<parserVars, key_content, answer_key, pc>>

\* what simple_parser leaves alone
notSimpleVars == <<v2Vars, cwaVars, fixedVars, semanticVars, toolVars>>

\* what fixed_parser leaves alone
notFixedVars == <<v2Vars, cwaVars, simpleVars, semanticVars, toolVars>>

\* what semantic_parser leaves alone
notSemanticVars == <<v2Vars, cwaVars, simpleVars, fixedVars, toolVars>>

\* the variables of the four parsers and of consolidate_with_answers
parsersVars == <<v2Vars, cwaVars, simpleVars, fixedVars, semanticVars>>

\* what simple_parser_v2.main leaves alone
notMainVars == <<parsersVars, consVars, cleanVars, pdfVars>>

\* what consolidate_jcl_data leaves alone
notConsVars == <<parsersVars, mainVars, cleanVars, pdfVars>>

\* what the clean-up scripts leave alone
notCleanVars == <<parsersVars, mainVars, consVars, pdfVars>>

\* what improved_pdf_to_txt leaves alone
notPdfVars == <<parsersVars, mainVars, consVars, cleanVars>>

(***************************************************************************)
(* Bounds                                                                  *)
(***************************************************************************)
MaxChunks == 4
MaxPairs == 3

(***************************************************************************)
(* Words and lines                                                         *)
(***************************************************************************)
NoFile == [exists |-> FALSE, pairs |-> <<>>]
KeyFile(pairs) == [exists |-> TRUE, pairs |-> pairs]
NoAnswer == "None"

\* Python None in an emitted record
NoneValue == "None"

UpperLetters == {"A", "B", "C", "D"}
LowerLetters == {"a", "b", "c", "d"}

Upper(l) ==
    CASE l = "a" -> "A" [] l = "b" -> "B" [] l = "c" -> "C" [] l = "d" -> "D"
      [] l = "e" -> "E" [] OTHER -> l

UpperMarkers == {"A.", "B.", "C.", "D."}
LowerMarkers == {"a.", "b.", "c.", "d."}

MarkerLetter(tok) ==
    CASE tok = "a." -> "a" [] tok = "b." -> "b" [] tok = "c." -> "c" [] tok = "d." -> "d"
      [] tok = "A." -> "A" [] tok = "B." -> "B" [] tok = "C." -> "C" [] tok = "D." -> "D"

NumToks == <<"1.", "2.">>
IsNumTok(tok) == \E n \in DOMAIN NumToks : NumToks[n] = tok
NumOf(tok) == CHOOSE n \in DOMAIN NumToks : NumToks[n] = tok

RECURSIVE Flatten(_)
Flatten(ls) == IF ls = <<>> THEN <<>> ELSE Head(ls) \o Flatten(Tail(ls))

\* ' '.join(lines[a-1:b-1]) of stripped lines
JoinLines(a, b) == Flatten(SubSeq(lines, a, b))

(***************************************************************************)
(* Line classifiers                                                        *)
(***************************************************************************)
HeaderFirstWords == {"Phrases", "Quotations"}
HeaderWholeLines == {<<"Mythology">>}

is_section_header(line) ==
    IF line = <<>> THEN TRUE
    ELSE line[1] \in HeaderFirstWords \/ line \in HeaderWholeLines

IsRangeColon(tok) == tok \in {"1-5:"}

is_instruction_line(line) ==
    /\ line # <<>>
    /\ \/ /\ Len(line) >= 2
          /\ line[1] \in {"Items", "Item", "Questions", "Question"}
          /\ IsRangeColon(line[2])
       \/ /\ Len(line) >= 2
          /\ line[1] = "Part"
          /\ line[2] \in {"I:", "II."}

\* re.match(r'^\d+\.', line)
StartsWithNumber(line) == line # <<>> /\ IsNumTok(line[1])

\* re.match(r'^(\d+)\.\s+(.+)', line)
question_match(line) == StartsWithNumber(line) /\ Len(line) >= 2

\* re.match(r'^[a-dA-D]\.', line)  and  re.match(r'^[a-d]\.', line, re.IGNORECASE)
StartsWithOptionAnyCase(line) ==
    line # <<>> /\ line[1] \in (UpperMarkers \cup LowerMarkers)

\* re.match(r'^[A-D]\.', line)
StartsWithOptionUpper(line) == line # <<>> /\ line[1] \in UpperMarkers

\* re.match(r'^([A-D])\.\s+(.+)', line)
option_match(line) == StartsWithOptionUpper(line) /\ Len(line) >= 2

EmptyMap == [n \in {} |-> NoAnswer]

MapPut(m, n, v) == [x \in (DOMAIN m) \cup {n} |-> IF x = n THEN v ELSE m[x]]

(***************************************************************************)
(* consolidate_with_answers.parse_answer_key                               *)
(***************************************************************************)
\* r'(\d+)\.\s*([A-D])' without flags
CwaKeyMatches(letter) == letter \in UpperLetters

RECURSIVE CwaAnswers(_, _)
CwaAnswers(pairs, answers) ==
    IF pairs = <<>> THEN answers
    ELSE LET pr == Head(pairs)
         IN  CwaAnswers(Tail(pairs),
                        IF CwaKeyMatches(pr[2])
                        THEN MapPut(answers, pr[1], pr[2])
                        ELSE answers)

cwa_parse_answer_key(content) ==
    IF ~content.exists THEN EmptyMap ELSE CwaAnswers(content.pairs, EmptyMap)

(***************************************************************************)
(* simple_parser_v2.parse_answer_key                                       *)
(*                                                                         *)
(* A key file is NoFile or holds a sequence of pairs <<number, letter>>,   *)
(* the text "number. letter" repeated.  re.findall visits the pairs in     *)
(* file order and a later pair overwrites an earlier one with the same     *)
(* number.                                                                 *)
(***************************************************************************)
\* r'(\d+)\.\s*([A-D])' with re.IGNORECASE
V2KeyMatches(letter) == letter \in (UpperLetters \cup LowerLetters)

RECURSIVE V2Answers(_, _)
V2Answers(pairs, answers) ==
    IF pairs = <<>> THEN answers
    ELSE LET pr == Head(pairs)
         IN  V2Answers(Tail(pairs),
                       IF V2KeyMatches(pr[2])
                       THEN MapPut(answers, pr[1], Upper(pr[2]))
                       ELSE answers)

\* the key parsed without re.IGNORECASE and without upper()
parse_answer_key_case_sensitive(content) ==
    IF ~content.exists THEN EmptyMap ELSE CwaAnswers(content.pairs, EmptyMap)

parse_answer_key(content) ==
    IF ~content.exists THEN EmptyMap ELSE V2Answers(content.pairs, EmptyMap)

(***************************************************************************)
(* Inner loops of simple_parser_v2.parse_test_file                         *)
(***************************************************************************)
NLines == Len(lines)

\* lines 131-138: first j >= the argument where the instruction stops
RECURSIVE InstructionEnd(_)
InstructionEnd(j) ==
    IF j > NLines THEN j
    ELSE IF StartsWithNumber(lines[j]) \/ lines[j] = <<>> THEN j
    ELSE InstructionEnd(j + 1)

\* lines 150-168: first j where the question body stops
RECURSIVE BodyEnd(_)
BodyEnd(j) ==
    IF j > NLines THEN j
    ELSE IF lines[j] = <<>> THEN BodyEnd(j + 1)
    ELSE IF StartsWithOptionAnyCase(lines[j]) THEN j
    ELSE IF StartsWithNumber(lines[j]) THEN j
    ELSE BodyEnd(j + 1)

\* lines 180-201: first j where the pre-2018 option lines stop.  options is
\* still empty while this loop runs, so len(options) < 4 always holds.
RECURSIVE PreOptionsEnd(_)
PreOptionsEnd(j) ==
    IF j > NLines THEN j
    ELSE IF lines[j] = <<>> THEN PreOptionsEnd(j + 1)
    ELSE IF StartsWithNumber(lines[j]) THEN j
    ELSE IF is_section_header(lines[j]) \/ is_instruction_line(lines[j]) THEN j
    ELSE IF StartsWithOptionAnyCase(lines[j]) THEN PreOptionsEnd(j + 1)
    ELSE j

\* the words of lines a..b, each with the number of the line it is on
RECURSIVE WordsWithLine(_, _)
WordsWithLine(a, b) ==
    IF a > b THEN <<>>
    ELSE [p \in 1..Len(lines[a]) |-> [word |-> lines[a][p], line |-> a]]
         \o WordsWithLine(a + 1, b)

IsMarkerAt(ws, p) ==
    /\ p < Len(ws)
    /\ ws[p].word \in (UpperMarkers \cup LowerMarkers)

\* end of the lazy group (.+?): the first e >= the argument that is followed
\* by \s+[a-d]\.\s+ or by the end of the string
RECURSIVE LazyEnd(_, _)
LazyEnd(ws, e) ==
    IF e >= Len(ws) THEN Len(ws)
    ELSE IF IsMarkerAt(ws, e + 1) THEN e
    ELSE LazyEnd(ws, e + 1)

\* lines 205-209: re.findall of r'([a-d])\.\s+(.+?)(?=\s+[a-d]\.\s+|$)' with
\* re.IGNORECASE over the combined option lines, stored by upper-case letter
RECURSIVE FindAllOptions(_, _, _)
FindAllOptions(ws, pos, opts) ==
    IF pos > Len(ws) THEN opts
    ELSE IF ~IsMarkerAt(ws, pos) THEN FindAllOptions(ws, pos + 1, opts)
    ELSE LET e == LazyEnd(ws, pos + 1)
             text == [p \in 1..(e - pos) |-> ws[pos + p].word]
         IN  FindAllOptions(ws, e + 1,
                 MapPut(opts, Upper(MarkerLetter(ws[pos].word)),
                        [text |-> text, line |-> ws[pos].line]))

\* lines 231-248: first k where the text of a post-2018 option stops
RECURSIVE OptionTextEnd(_)
OptionTextEnd(k) ==
    IF k > NLines THEN k
    ELSE IF lines[k] = <<>> THEN OptionTextEnd(k + 1)
    ELSE IF StartsWithOptionUpper(lines[k]) THEN k
    ELSE IF StartsWithNumber(lines[k]) THEN k
    ELSE IF is_instruction_line(lines[k]) \/ is_section_header(lines[k]) THEN k
    ELSE OptionTextEnd(k + 1)

\* lines 215-254: the post-2018 option loop
RECURSIVE PostOptions(_, _, _)
PostOptions(j, option_idx, opts) ==
    IF j > NLines \/ option_idx >= 4 THEN [j |-> j, options |-> opts]
    ELSE IF lines[j] = <<>> THEN PostOptions(j + 1, option_idx, opts)
    ELSE IF option_match(lines[j])
    THEN LET k == OptionTextEnd(j + 1)
             text == Tail(lines[j]) \o JoinLines(j + 1, k - 1)
         IN  PostOptions(k, option_idx + 1,
                 MapPut(opts, Upper(MarkerLetter(lines[j][1])),
                        [text |-> text, line |-> j]))
    ELSE PostOptions(j + 1, option_idx, opts)

\* the options read from the first option line only
PreOptionsFirstLine(j) ==
    LET jend == PreOptionsEnd(j)
    IN  [j |-> jend,
         options |-> FindAllOptions(WordsWithLine(j, IF jend > j THEN j ELSE j - 1),
                                    1, EmptyMap)]

PreOptions(j) ==
    LET jend == PreOptionsEnd(j)
    IN  [j |-> jend, options |-> FindAllOptions(WordsWithLine(j, jend - 1), 1, EmptyMap)]

(***************************************************************************)
(* Inputs                                                                  *)
(***************************************************************************)
LBlank == <<>>
LHeader == <<"Mythology">>
LInstr == <<"Items", "1-5:", "Identify">>
LVocab == <<"Choose", "the", "best", "definition:">>
LQ1 == <<"1.", "Who">>
LQ2 == <<"2.", "What">>
LBare == <<"1.">>
LA == <<"A.", "Rome">>
LB == <<"B.", "Athens">>
LC == <<"C.", "Sparta">>
LD == <<"D.", "Corinth">>
LPacked == <<"a.", "Rome", "b.", "Athens", "c.", "Sparta", "d.", "Corinth">>
LPackAB == <<"a.", "Rome", "b.", "Athens">>
LPackCD == <<"c.", "Sparta", "d.", "Corinth">>

\* A file is up to MaxChunks chunks, a chunk being one line or a few
\* consecutive lines.
CwaIdle ==
    /\ cwa_pc = "idle"
    /\ cwa_answers = EmptyMap
    /\ cwa_questions = <<>>
    /\ cwa_pos = 1
    /\ subject_stats = [questions_with_answers |-> 0]

\* simple_parser is not running
SimpleIdle ==
    /\ sp_pc = "idle"
    /\ sp_content = ""
    /\ sp_is_pre_2018 = FALSE
    /\ sp_key_content = NoFile
    /\ sp_i = 0
    /\ sp_state = "STATE_INSTRUCTION"
    /\ sp_current_instruction = ""
    /\ sp_current_question_num = NoneValue
    /\ sp_current_question_text = ""
    /\ sp_current_options = EmptyMap
    /\ sp_current_option_text = ""
    /\ sp_questions = <<>>

\* current_question is None
NoQuestion == [exists |-> FALSE]

\* no result yet
NoResult == [exists |-> FALSE]

\* fixed_parser is not running
FixedIdle ==
    /\ fp_pc = "idle"
    /\ fp_lines = <<>>
    /\ fp_is_pre_2018 = FALSE
    /\ fp_key_content = NoFile
    /\ fp_i = 1
    /\ fp_questions = <<>>
    /\ fp_current_question = NoQuestion
    /\ fp_current_section = NoneValue
    /\ fp_section_context = NoneValue
    /\ fp_current_instruction = NoneValue
    /\ fp_result = NoResult
    /\ fp_run = 1
    /\ fp_first = NoResult

SemanticDefault == "Answer the following question."

\* semantic_parser is not running
SemanticIdle ==
    /\ sem_pc = "idle"
    /\ sem_text_content = ""
    /\ sem_key_content = NoFile
    /\ sem_answer_key = EmptyMap
    /\ sem_lines = <<>>
    /\ sem_is_pre_2018 = FALSE
    /\ sem_i = 1
    /\ sem_questions = <<>>
    /\ sem_current_instruction = SemanticDefault

\* simple_parser_v2.main is not running
MainIdle ==
    /\ main_pc = "idle"
    /\ main_base_exists = FALSE
    /\ test_files = <<>>
    /\ main_idx = 1
    /\ main_attempted = <<>>
    /\ main_raised = {}
    /\ main_saved = {}
    /\ success_count = 0
    /\ error_count = 0

\* consolidate_jcl_data is not running
ConsIdle ==
    /\ cj_files = <<>>
    /\ cj_year = 1
    /\ cj_data = <<>>
    /\ cj_answer_key = EmptyMap
    /\ cj_pos = 1
    /\ all_questions = <<>>
    /\ cj_stats = [total_questions |-> 0]
    /\ cj_document = [exists |-> FALSE]
    /\ cj_pc = "idle"

\* no clean-up script is running
CleanIdle ==
    /\ cl_instruction = ""
    /\ cl_question = ""
    /\ clean_log = <<>>

\* pdf_to_text_improved is not running
PdfIdle ==
    /\ pdf_pages = <<>>
    /\ pdf_page = 1
    /\ pdf_text_content = ""
    /\ pdf_txt_file = ""
    /\ pdf_pc = "idle"

\* neither the batch driver nor a clean-up script is running
ToolsIdle == MainIdle /\ ConsIdle /\ CleanIdle /\ PdfIdle

OthersIdle == SimpleIdle /\ FixedIdle /\ SemanticIdle /\ ToolsIdle

CommonChunks == {<<LBlank>>, <<LHeader>>, <<LInstr>>, <<LVocab>>, <<LQ1>>, <<LQ2>>, <<LBare>>}
PostChunks == CommonChunks \cup {<<LA>>, <<LA, LB, LC>>, <<LD>>, <<LQ2, LA, LB, LC, LD>>}
PreChunks == CommonChunks \cup {<<LPacked>>, <<LPackAB>>, <<LPackCD>>, <<LQ2, LPacked>>}

FilesOf(chunks) ==
    {Flatten(cs) : cs \in UNION {[1..n -> chunks] : n \in 0..MaxChunks}}

KeyFiles == {NoFile, KeyFile(<<<<1, "c">>>>)}

DefaultInstruction == <<"Answer", "the", "following", "question.">>

(***************************************************************************)
(* simple_parser_v2.parse_test_file                                        *)
(***************************************************************************)
\* simple_parser_v2.parse_test_file is not running
V2Idle ==
    /\ is_pre_2018 = FALSE
    /\ lines = <<>>
    /\ key_content = NoFile
    /\ answer_key = EmptyMap
    /\ questions = <<>>
    /\ current_instruction = DefaultInstruction
    /\ i = 1
    /\ pc = "idle"
    /\ missing_keys = <<>>

\* no parser is running
ParsersIdle == V2Idle /\ CwaIdle /\ SimpleIdle /\ FixedIdle /\ SemanticIdle

Init ==
    /\ is_pre_2018 \in BOOLEAN
    /\ lines \in (IF is_pre_2018 THEN FilesOf(PreChunks) ELSE FilesOf(PostChunks))
    /\ key_content \in KeyFiles
    /\ answer_key = EmptyMap
    /\ questions = <<>>
    /\ current_instruction = DefaultInstruction
    /\ i = 1
    /\ pc = "start"
    /\ missing_keys = <<>>
    /\ CwaIdle
    /\ OthersIdle

\* line 112
ParseAnswerKey ==
    /\ pc = "start"
    /\ answer_key' = parse_answer_key(key_content)
    /\ pc' = "loop"
    /\ UNCHANGED <<parserVars, key_content, cwaVars, otherVars>>

AtLine == pc = "loop" /\ i <= NLines

\* lines 122-125
SkipHeader ==
    /\ AtLine
    /\ is_section_header(lines[i])
    /\ i' = i + 1
    /\ UNCHANGED <<lines, is_pre_2018, key_content, answer_key, questions,
                   current_instruction, pc, missing_keys, cwaVars, otherVars>>

\* lines 127-141 without `i = j` of line 140
ReadInstructionStuck ==
    /\ AtLine
    /\ ~is_section_header(lines[i])
    /\ is_instruction_line(lines[i])
    /\ current_instruction' = JoinLines(i, InstructionEnd(i + 1) - 1)
    /\ UNCHANGED <<i, lines, is_pre_2018, key_content, answer_key, questions,
                   pc, missing_keys, cwaVars, otherVars>>

\* lines 127-141
ReadInstruction ==
    /\ AtLine
    /\ ~is_section_header(lines[i])
    /\ is_instruction_line(lines[i])
    /\ LET j == InstructionEnd(i + 1)
       IN  /\ current_instruction' = JoinLines(i, j - 1)
           /\ i' = j
    /\ UNCHANGED <<lines, is_pre_2018, key_content, answer_key, questions,
                   pc, missing_keys, cwaVars, otherVars>>

\* answer_key.get(question_num) without the UNKNOWN fallback
KeyForRaw(question_num) ==
    IF question_num \in DOMAIN answer_key THEN answer_key[question_num] ELSE NoAnswer

\* answer_key.get(question_num), then `answer if answer else "UNKNOWN"`
KeyFor(question_num) ==
    IF question_num \in DOMAIN answer_key /\ answer_key[question_num] # ""
    THEN answer_key[question_num]
    ELSE "UNKNOWN"

\* line 260
all_options_valid(options) ==
    \A key \in UpperLetters : key \in DOMAIN options /\ options[key].text # <<>>

\* line 257
IsComplete(question_body, options) ==
    question_body # <<>> /\ Cardinality(DOMAIN options) = 4

NewRecord(jb, opts, instruction) ==
    [question_index |-> NumOf(lines[i][1]),
     question_body |-> Tail(lines[i]) \o JoinLines(i + 1, jb - 1),
     question_options |-> [l \in DOMAIN opts |-> opts[l].text],
     question_key |-> KeyFor(NumOf(lines[i][1])),
     question_instruction |-> instruction,
     start_line |-> i,
     option_lines |-> [l \in DOMAIN opts |-> opts[l].line]]

\* the record appended without the completeness test of line 257
EmitUnchecked(jb, opts) ==
    Append(questions, NewRecord(jb, opts, current_instruction))

\* the instruction given to the first record only
EmitClearing(jb, opts) ==
    IF IsComplete(Tail(lines[i]) \o JoinLines(i + 1, jb - 1), opts) /\ all_options_valid(opts)
    THEN Append(questions,
             NewRecord(jb, opts,
                 IF questions = <<>> THEN current_instruction ELSE DefaultInstruction))
    ELSE questions

\* lines 256-278: the records after the question that starts on line i, with
\* body lines up to jb - 1 and the options found in opts
Emit(jb, opts) ==
    LET question_body == Tail(lines[i]) \o JoinLines(i + 1, jb - 1)
    IN  IF IsComplete(question_body, opts) /\ all_options_valid(opts)
        THEN Append(questions, NewRecord(jb, opts, current_instruction))
        ELSE questions

IsQuestionLine ==
    /\ AtLine
    /\ ~is_section_header(lines[i])
    /\ ~is_instruction_line(lines[i])
    /\ question_match(lines[i])

\* lines 143-209 and 256-280
ParseQuestionPre ==
    /\ IsQuestionLine
    /\ is_pre_2018
    /\ LET jb == BodyEnd(i + 1)
           r == PreOptions(jb)
       IN  /\ questions' = Emit(jb, r.options)
           /\ i' = r.j
    /\ UNCHANGED <<lines, is_pre_2018, key_content, answer_key,
                   current_instruction, pc, missing_keys, cwaVars, otherVars>>

\* lines 143-170 and 210-280
ParseQuestionPost ==
    /\ IsQuestionLine
    /\ ~is_pre_2018
    /\ LET jb == BodyEnd(i + 1)
           r == PostOptions(jb, 0, EmptyMap)
       IN  /\ questions' = Emit(jb, r.options)
           /\ i' = r.j
    /\ UNCHANGED <<lines, is_pre_2018, key_content, answer_key,
                   current_instruction, pc, missing_keys, cwaVars, otherVars>>

\* lines 281-282
SkipOther ==
    /\ AtLine
    /\ ~is_section_header(lines[i])
    /\ ~is_instruction_line(lines[i])
    /\ ~question_match(lines[i])
    /\ i' = i + 1
    /\ UNCHANGED <<lines, is_pre_2018, key_content, answer_key, questions,
                   current_instruction, pc, missing_keys, cwaVars, otherVars>>

\* line 287
MissingKeys(qs) ==
    LET unknown == SelectSeq(qs, LAMBDA q : q.question_key = "UNKNOWN")
    IN  [n \in 1..Len(unknown) |-> unknown[n].question_index]

\* lines 284-291
Finish ==
    /\ pc = "loop"
    /\ i > NLines
    /\ missing_keys' = MissingKeys(questions)
    /\ pc' = "done"
    /\ UNCHANGED <<lines, is_pre_2018, key_content, answer_key, questions,
                   current_instruction, i, cwaVars, otherVars>>

Next ==
    \/ ParseAnswerKey
    \/ SkipHeader
    \/ ReadInstruction
    \/ ParseQuestionPre
    \/ ParseQuestionPost
    \/ SkipOther
    \/ Finish

Spec == Init /\ [][Next]_vars

TypeOK ==
    /\ pc \in {"start", "loop", "done"}
    /\ i \in 1..(NLines + 1)

(***************************************************************************)
(* Answer keys: simple_parser_v2.parse_answer_key and the per-file part of *)
(* consolidate_with_answers.consolidate_jcl_data                           *)
(***************************************************************************)
KeyNums == {1, 2, 3}
KeyLetters == {"A", "B", "c", "E"}
KeyPairs == KeyNums \X KeyLetters
KeyBlobs == UNION {[1..n -> KeyPairs] : n \in 0..MaxPairs}

Unset == "unset"

CwaInputs ==
    {[p \in 1..Len(ns) |-> [question_number |-> ns[p], correct_answer |-> Unset]] :
        ns \in {<<>>, <<3>>, <<1, 2>>, <<3, 1>>}}

InitKey ==
    /\ is_pre_2018 = FALSE
    /\ lines = <<>>
    /\ key_content \in {NoFile} \cup {KeyFile(b) : b \in KeyBlobs}
    /\ answer_key = EmptyMap
    /\ questions = <<>>
    /\ current_instruction = DefaultInstruction
    /\ i = 1
    /\ pc = "start"
    /\ missing_keys = <<>>
    /\ cwa_pc = "key"
    /\ cwa_answers = EmptyMap
    /\ cwa_questions \in CwaInputs
    /\ cwa_pos = 1
    /\ subject_stats = [questions_with_answers |-> 0]
    /\ OthersIdle

\* consolidate_with_answers.py line 101
CwaParseAnswerKey ==
    /\ cwa_pc = "key"
    /\ cwa_answers' = cwa_parse_answer_key(key_content)
    /\ cwa_pc' = "questions"
    /\ UNCHANGED <<parserVars, key_content, answer_key, pc,
                   cwa_questions, cwa_pos, subject_stats, otherVars>>

\* consolidate_with_answers.py lines 118-123, one pass of the loop of line 109
CwaAddAnswer ==
    /\ cwa_pc = "questions"
    /\ cwa_pos <= Len(cwa_questions)
    /\ LET question == cwa_questions[cwa_pos]
           found == question.question_number \in DOMAIN cwa_answers
       IN  /\ cwa_questions' =
                 [cwa_questions EXCEPT ![cwa_pos].correct_answer =
                     IF found THEN cwa_answers[question.question_number]
                     ELSE NoneValue]
           /\ subject_stats' =
                 [subject_stats EXCEPT !.questions_with_answers =
                     IF found THEN @ + 1 ELSE @]
    /\ cwa_pos' = cwa_pos + 1
    /\ UNCHANGED <<parserVars, key_content, answer_key, pc, cwa_pc, cwa_answers,
                   otherVars>>

NextKey ==
    \/ ParseAnswerKey
    \/ CwaParseAnswerKey
    \/ CwaAddAnswer

SpecKey == InitKey /\ [][NextKey]_vars

(***************************************************************************)
(* Properties of simple_parser_v2.parse_test_file                          *)
(***************************************************************************)
Records == {questions[n] : n \in DOMAIN questions}

\* C1: every emitted record has exactly the four options A, B, C, D, each
\* with non-empty text, a non-empty body, a non-empty instruction and a key
\* that is A, B, C, D or UNKNOWN.
C1_AllFieldsNonEmpty ==
    \A q \in Records :
        /\ DOMAIN q.question_options = UpperLetters
        /\ \A l \in UpperLetters : q.question_options[l] # <<>>
        /\ q.question_body # <<>>
        /\ q.question_instruction # <<>>
        /\ q.question_key \in UpperLetters \cup {"UNKNOWN"}

C1_Witness ==
    /\ pc = "done"
    /\ ~is_pre_2018
    /\ \E q \in Records : q.question_key = "C"
    /\ \E n \in 1..NLines : StartsWithOptionUpper(lines[n]) /\ n < i

\* the words of the option lines between lines a and b, both excluded
MarkerCount(a, b) ==
    Cardinality({w \in DOMAIN WordsWithLine(a + 1, b - 1) :
                    WordsWithLine(a + 1, b - 1)[w].word \in (UpperMarkers \cup LowerMarkers)})

\* a question start at line q whose span up to line s holds only option
\* lines, with fewer than four option markers on them
IncompleteBefore(s) ==
    \E q \in 1..(s - 1) :
        /\ question_match(lines[q])
        /\ \A p \in (q + 1)..(s - 1) : StartsWithOptionAnyCase(lines[p])
        /\ MarkerCount(q, s) < 4

PackedWords == <<"a.", "Rome", "b.", "Athens", "c.", "Sparta", "d.", "Corinth">>

\* a question-start line with a body, followed by its four options
WellFormedAt(s) ==
    /\ question_match(lines[s])
    /\ IF is_pre_2018
       THEN s + 1 <= NLines /\ lines[s + 1] = PackedWords
       ELSE /\ s + 4 <= NLines
            /\ \A n \in 1..4 :
                  /\ Len(lines[s + n]) = 2
                  /\ lines[s + n][1] = <<"A.", "B.", "C.", "D.">>[n]
                  /\ lines[s + n][2] \notin (UpperMarkers \cup LowerMarkers)

\* C2: a well-formed question that follows a question with fewer than four
\* options is emitted as its own record.
C2_FollowingQuestionEmitted ==
    pc = "done" =>
        \A s \in 1..NLines :
            (WellFormedAt(s) /\ IncompleteBefore(s)) =>
                \E q \in Records :
                    /\ q.start_line = s
                    /\ q.question_index = NumOf(lines[s][1])

\* C3: every option of an emitted record comes from a line after the
\* record's question-start line and before the next line that begins with
\* an integer and a period.
C3_OptionsWithinSpan ==
    \A q \in Records :
        \A l \in DOMAIN q.option_lines :
            /\ q.option_lines[l] > q.start_line
            /\ \A p \in (q.start_line + 1)..(q.option_lines[l] - 1) :
                  ~StartsWithNumber(lines[p])

\* C4: the key of every emitted record is the letter the answer key holds
\* for its index, or UNKNOWN when the index is absent, and missing_keys lists
\* exactly the indices of the records whose key is UNKNOWN.
C4_KeyLookup ==
    /\ \A q \in Records :
          q.question_key =
              IF q.question_index \in DOMAIN answer_key
              THEN answer_key[q.question_index]
              ELSE "UNKNOWN"
    /\ pc = "done" =>
          /\ {missing_keys[n] : n \in DOMAIN missing_keys} =
                 {q.question_index : q \in {r \in Records : r.question_key = "UNKNOWN"}}
          /\ Len(missing_keys) =
                 Cardinality({n \in DOMAIN questions : questions[n].question_key = "UNKNOWN"})

C4_Witness ==
    /\ pc = "done"
    /\ \E q \in Records : q.question_key = "C" /\ q.question_index = 1
    /\ \E q \in Records : q.question_key = "UNKNOWN" /\ q.question_index = 2
    /\ missing_keys = <<2>>

(***************************************************************************)
(* Properties of the answer-key parsers                                    *)
(***************************************************************************)
DistinctNumbers(pairs) ==
    \A a, b \in DOMAIN pairs : a # b => pairs[a][1] # pairs[b][1]

LettersAToD(pairs) ==
    \A p \in DOMAIN pairs : pairs[p][2] \in (UpperLetters \cup LowerLetters)

Reorderings(pairs) ==
    {[p \in DOMAIN pairs |-> pairs[f[p]]] : f \in Permutations(DOMAIN pairs)}

\* C5: for a key blob of pairs with pairwise distinct numbers and letters
\* a-d in either case, parse_answer_key returns the mapping number -> upper
\* case letter of the pairs, every value is A, B, C or D, and every
\* reordering of the pairs gives the same mapping.
C5_KeyMapping ==
    (pc # "start" /\ key_content.exists
        /\ DistinctNumbers(key_content.pairs) /\ LettersAToD(key_content.pairs)) =>
        LET pairs == key_content.pairs
        IN  /\ DOMAIN answer_key = {pairs[p][1] : p \in DOMAIN pairs}
            /\ \A p \in DOMAIN pairs : answer_key[pairs[p][1]] = Upper(pairs[p][2])
            /\ \A n \in DOMAIN answer_key : answer_key[n] \in UpperLetters
            /\ \A b \in Reorderings(pairs) : parse_answer_key(KeyFile(b)) = answer_key

C5_Witness ==
    /\ pc # "start"
    /\ key_content.exists
    /\ DistinctNumbers(key_content.pairs)
    /\ LettersAToD(key_content.pairs)
    /\ Len(key_content.pairs) = 3
    /\ key_content.pairs[1][1] > key_content.pairs[2][1]
    /\ \E p \in DOMAIN key_content.pairs : key_content.pairs[p][2] \in LowerLetters
    /\ \E n \in DOMAIN answer_key : answer_key[n] = "C"

\* C6: a pair with a lower-case letter yields the entry number -> upper-case
\* letter in the mapping of consolidate_with_answers.parse_answer_key, and
\* the question with that number gets a correct_answer that is not null.
C6_CwaCaseInsensitive ==
    (cwa_pc = "questions" /\ key_content.exists
        /\ DistinctNumbers(key_content.pairs)) =>
        \A p \in DOMAIN key_content.pairs :
            key_content.pairs[p][2] \in LowerLetters =>
                LET n == key_content.pairs[p][1]
                IN  /\ n \in DOMAIN cwa_answers
                    /\ cwa_answers[n] = Upper(key_content.pairs[p][2])
                    /\ \A k \in 1..(cwa_pos - 1) :
                          cwa_questions[k].question_number = n =>
                              cwa_questions[k].correct_answer # NoneValue

(***************************************************************************)
(* Properties of the option split and of the instructions                  *)
(***************************************************************************)
\* the words of the pre-2018 option lines of the question starting on line s
OptionWordsOf(s) ==
    LET jb == BodyEnd(s + 1)
        ws == WordsWithLine(jb, PreOptionsEnd(jb) - 1)
    IN  [p \in DOMAIN ws |-> ws[p].word]

MarkerPositions(ws) == {p \in DOMAIN ws : ws[p] \in (UpperMarkers \cup LowerMarkers)}

LetterLess(a, b) ==
    \E m, n \in 1..4 : m < n /\ <<"a", "b", "c", "d">>[m] = a /\ <<"a", "b", "c", "d">>[n] = b

\* the option words have the form a. X b. Y c. Z d. W, the texts X, Y, Z, W
\* non-empty and without option marker
IsPackedForm(ws) ==
    /\ Cardinality(MarkerPositions(ws)) = 4
    /\ \A l \in LowerMarkers : \E p \in MarkerPositions(ws) : ws[p] = l
    /\ \A p, r \in MarkerPositions(ws) :
          p < r => LetterLess(MarkerLetter(ws[p]), MarkerLetter(ws[r]))
    /\ 1 \in MarkerPositions(ws)
    /\ \A p \in MarkerPositions(ws) : p < Len(ws) /\ (p + 1) \notin MarkerPositions(ws)

\* the text between the marker of letter l and the next marker
TextAfter(ws, l) ==
    LET p == CHOOSE x \in MarkerPositions(ws) : Upper(MarkerLetter(ws[x])) = l
        later == {x \in MarkerPositions(ws) : x > p}
        last == IF later = {} THEN Len(ws)
                ELSE (CHOOSE x \in later : \A y \in later : x <= y) - 1
    IN  SubSeq(ws, p + 1, last)

\* C7: in pre-2018 mode a question whose options appear as a. X b. Y c. Z
\* d. W, on one line or over consecutive option lines, is emitted with the
\* options A: X, B: Y, C: Z, D: W.
C7_PackedOptionsSplit ==
    (pc = "done" /\ is_pre_2018) =>
        \A s \in 1..NLines :
            (question_match(lines[s]) /\ IsPackedForm(OptionWordsOf(s))) =>
                \E q \in Records :
                    /\ q.start_line = s
                    /\ q.question_options =
                           [l \in UpperLetters |-> TextAfter(OptionWordsOf(s), l)]

C7_Witness ==
    /\ pc = "done"
    /\ is_pre_2018
    /\ \E q \in Records :
          /\ IsPackedForm(OptionWordsOf(q.start_line))
          /\ q.option_lines["A"] # q.option_lines["D"]
          /\ q.question_options["B"] = <<"Athens">>
    /\ \E q \in Records : q.option_lines["A"] = q.option_lines["D"]

InstructionLinesBetween(a, b) ==
    {p \in (a + 1)..(b - 1) : is_instruction_line(lines[p])}

\* C8: two emitted records with no instruction-shaped line between their
\* question-start lines carry the same question_instruction.
C8_InstructionInherited ==
    \A q, r \in Records :
        (q.start_line < r.start_line
            /\ InstructionLinesBetween(q.start_line, r.start_line) = {}) =>
            q.question_instruction = r.question_instruction

C8_Witness ==
    /\ pc = "done"
    /\ \E q, r \in Records :
          /\ q.start_line < r.start_line
          /\ InstructionLinesBetween(q.start_line, r.start_line) = {}
          /\ q.question_instruction = LInstr
          /\ r.question_instruction = LInstr

\* C9: the instruction of every emitted record is the instruction that
\* holds the last instruction-shaped line before the record's question-start
\* line, or the default instruction when there is no such line.
C9_LastInstructionWins ==
    \A q \in Records :
        LET before == InstructionLinesBetween(0, q.start_line)
        IN  IF before = {}
            THEN q.question_instruction = DefaultInstruction
            ELSE LET last == CHOOSE p \in before : \A x \in before : x <= p
                 IN  \E p \in before :
                        /\ InstructionEnd(p + 1) > last
                        /\ q.question_instruction = JoinLines(p, InstructionEnd(p + 1) - 1)

InstructionVocabulary == {"Choose", "Identify", "Select", "Complete", "Match", "Give",
                          "Answer", "Refer", "Determine", "Items"}
SentenceFinalWords == {"definition:", "question."}

\* a line that is no question start, option line or noise line, has more
\* than two words, ends in sentence-final punctuation and holds a word of
\* the instructional vocabulary
VocabularyInstruction(line) ==
    /\ Len(line) > 2
    /\ ~StartsWithNumber(line)
    /\ ~StartsWithOptionAnyCase(line)
    /\ ~is_section_header(line)
    /\ line[Len(line)] \in SentenceFinalWords
    /\ \E p \in DOMAIN line : line[p] \in InstructionVocabulary

\* C10: a line of that shape placed before a question is that question's
\* question_instruction.
C10_VocabularyInstruction ==
    \A q \in Records :
        (q.start_line > 1 /\ VocabularyInstruction(lines[q.start_line - 1])) =>
            q.question_instruction = lines[q.start_line - 1]

(***************************************************************************)
(* Text as a Python str.  simple_parser.py scans the file content one      *)
(* character at a time, so there a text is a TLA+ string; its character of *)
(* (0-based) index k is CharAt(s, k) and s[a:b] is Slice(s, a, b).         *)
(***************************************************************************)
CharAt(s, k) == SubSeq(s, k + 1, k + 1)
Slice(s, a, b) == SubSeq(s, a + 1, b)
SliceFrom(s, a) == SubSeq(s, a + 1, Len(s))

Whitespace == {" ", "\n", "\t", "\r"}
Digits == <<"0", "1", "2", "3", "4", "5", "6", "7", "8", "9">>
UpperAlpha == <<"A", "B", "C", "D", "E", "F", "G", "H", "I", "J", "K", "L", "M",
                "N", "O", "P", "Q", "R", "S", "T", "U", "V", "W", "X", "Y", "Z">>
LowerAlpha == <<"a", "b", "c", "d", "e", "f", "g", "h", "i", "j", "k", "l", "m",
                "n", "o", "p", "q", "r", "s", "t", "u", "v", "w", "x", "y", "z">>
\* stands for U+2013 (en dash), which a TLA+ string cannot hold
EnDash == "~"

Range(f) == {f[x] : x \in DOMAIN f}
isdigit(c) == c \in Range(Digits)
isalpha(c) == c \in Range(UpperAlpha) \cup Range(LowerAlpha)

lower_char(c) ==
    IF c \in Range(UpperAlpha)
    THEN LowerAlpha[CHOOSE k \in 1..26 : UpperAlpha[k] = c]
    ELSE c
upper_char(c) ==
    IF c \in Range(LowerAlpha)
    THEN UpperAlpha[CHOOSE k \in 1..26 : LowerAlpha[k] = c]
    ELSE c

\* a.lower() == b.lower()
SameLower(a, b) ==
    /\ Len(a) = Len(b)
    /\ \A k \in 0..(Len(a) - 1) : lower_char(CharAt(a, k)) = lower_char(CharAt(b, k))

startswith(s, p) == Len(s) >= Len(p) /\ Slice(s, 0, Len(p)) = p
endswith(s, p) == Len(s) >= Len(p) /\ SliceFrom(s, Len(s) - Len(p)) = p
\* s.lower().startswith(p.lower())
lower_startswith(s, p) == Len(s) >= Len(p) /\ SameLower(Slice(s, 0, Len(p)), p)
\* sub in s.lower(), sub being in lower case
InLower(sub, s) ==
    \E k \in 0..(Len(s) - Len(sub)) : SameLower(Slice(s, k, k + Len(sub)), sub)

\* index of the first character of s that is in set, Len(s) if there is none
FirstIn(s, set) ==
    IF \E k \in 0..(Len(s) - 1) : CharAt(s, k) \in set
    THEN CHOOSE k \in 0..(Len(s) - 1) :
            /\ CharAt(s, k) \in set
            /\ \A m \in 0..(k - 1) : CharAt(s, m) \notin set
    ELSE Len(s)

\* index of the first character of s that is not in set, Len(s) if there is none
FirstNotIn(s, set) ==
    IF \E k \in 0..(Len(s) - 1) : CharAt(s, k) \notin set
    THEN CHOOSE k \in 0..(Len(s) - 1) :
            /\ CharAt(s, k) \notin set
            /\ \A m \in 0..(k - 1) : CharAt(s, m) \in set
    ELSE Len(s)

lstrip(s) == SliceFrom(s, FirstNotIn(s, Whitespace))

\* the number of characters of s but for its trailing whitespace
LenStripped(s) ==
    IF \E k \in 1..Len(s) : CharAt(s, k - 1) \notin Whitespace
    THEN CHOOSE k \in 1..Len(s) :
            /\ CharAt(s, k - 1) \notin Whitespace
            /\ \A m \in (k + 1)..Len(s) : CharAt(s, m - 1) \in Whitespace
    ELSE 0

rstrip(s) == Slice(s, 0, LenStripped(s))

strip(s) == lstrip(rstrip(s))

\* s.split('\n')
RECURSIVE split_newline(_)
split_newline(s) ==
    LET n == FirstIn(s, {"\n"})
    IN  IF n = Len(s) THEN <<s>>
        ELSE <<Slice(s, 0, n)>> \o split_newline(SliceFrom(s, n + 1))

\* s.split()
RECURSIVE split(_)
split(s) ==
    LET t == lstrip(s)
        n == FirstIn(t, Whitespace)
    IN  IF t = "" THEN <<>> ELSE <<Slice(t, 0, n)>> \o split(SliceFrom(t, n))

\* ' '.join(parts)
RECURSIVE join(_)
join(parts) ==
    IF parts = <<>> THEN ""
    ELSE IF Len(parts) = 1 THEN parts[1]
    ELSE parts[1] \o " " \o join(Tail(parts))

\* int(s) of a string of digits
RECURSIVE int(_)
int(s) ==
    IF s = "" THEN 0
    ELSE 10 * int(Slice(s, 0, Len(s) - 1))
         + (CHOOSE d \in 0..9 : Digits[d + 1] = CharAt(s, Len(s) - 1))

(***************************************************************************)
(* simple_parser.handle_section_headers                                    *)
(***************************************************************************)
section_patterns ==
    {"Mythology:", "Phrases:", "Mottoes:", "Abbreviations:", "Quotations:",
     "Derivatives:", "History:", "Vocabulary:", "Classical Art:", "Classical Geography:",
     "Empire:", "Monarchy:", "Republic:", "Vocabulary I:", "Vocabulary II:",
     "Derivatives I:", "Derivatives II:", "History of the Empire:",
     "History of the Monarchy and Republic:", "History of the Monarchy & Republic:",
     "MYTHOLOGY:", "MOTTOES:", "PHRASES:",
     "QUOTATIONS:", "ABBREVIATIONS:", "Chlorus:", "Derived:", "English word(s):",
     "Equivalents:", "Extra questions:", "Geography:", "Image:", "Miscellaneous:",
     "Word:", "Phrases, Mottoes, Abbreviations, and Quotations:",
     "Mythology", "Phrases", "Mottoes", "Abbreviations", "Quotations",
     "Derivatives", "History", "Vocabulary", "Classical Art", "Classical Geography",
     "Empire", "Monarchy", "Republic", "Vocabulary I", "Vocabulary II",
     "Derivatives I", "Derivatives II", "History of the Empire",
     "History of the Monarchy and Republic", "History of the Monarchy & Republic",
     "MYTHOLOGY", "MOTTOES", "PHRASES",
     "QUOTATIONS", "ABBREVIATIONS", "Chlorus", "Derived", "English word(s)",
     "Equivalents", "Extra questions", "Geography", "Image", "Miscellaneous",
     "Word", "Phrases, Mottoes, Abbreviations, and Quotations",
     "I.", "II.", "III.", "IV.", "V.", "VI.", "VII.", "VIII.", "IX.", "X.",
     "I)", "II)", "III)", "IV)", "V)", "VI)", "VII)", "VIII)", "IX)", "X)",
     "Part I)", "Part II)", "Part III)", "Part IV)", "Part V)",
     "Part 1)", "Part 2)", "Part 3)", "Part 4)", "Part 5)",
     "Part I.", "Part II.", "Part III.", "Part IV.", "Part V.",
     "Part 1.", "Part 2.", "Part 3.", "Part 4.", "Part 5."}

ForumSubjects ==
    <<"Derivatives 1", "Derivatives I", "Derivatives II", "Derivatives",
      "Mythology", "Vocabulary 1", "Vocabulary I", "Vocabulary II", "Vocabulary",
      "History", "Mottoes", "Phrases", "Abbreviations", "Quotations",
      "Classical Art", "Classical Geography", "History of the Empire",
      "History of the Monarchy and Republic", "History of the Monarchy & Republic",
      "Mottoes, Abbreviations, and Quotations",
      "Mottoes, Abbreviations, & Quotations">>

prefix_headers ==
    [k \in 1..Len(ForumSubjects) |->
        "FJCL State Latin Forum " \o EnDash \o " " \o ForumSubjects[k] \o " -"]
    \o <<"2015 FJCL State Latin Forum", "2014 FJCL State Latin Forum",
         "2013 FJCL State Latin Forum", "2012 FJCL State Latin Forum",
         "2011 FJCL State Latin Forum", "2010 FJCL State Latin Forum",
         "2009 FJCL State Latin Forum",
         "2019 FJCL State Forum", "2018 FJCL State Forum", "2017 FJCL State Forum",
         "2016 FJCL State Forum", "2015 FJCL State Forum", "2014 FJCL State Forum",
         "2013 FJCL State Forum", "2012 FJCL State Forum", "2011 FJCL State Forum",
         "2010 FJCL State Forum", "2009 FJCL State Forum",
         "FJCL State Latin Forum", "FJCL State Forum",
         "Derivatives", "Mythology", "Vocabulary", "History", "Classical Art",
         "Classical Geography", "Mottoes", "Abbreviations", "Quotations", "Phrases",
         "Derivatives I", "Derivatives II", "Vocabulary I", "Vocabulary II",
         "History of the Empire", "History of the Monarchy and Republic",
         "History of the Monarchy & Republic",
         "Mottoes, Abbreviations, and Quotations",
         "Mottoes, Abbreviations, & Quotations",
         "Phrases, Mottoes, Abbreviations, and Quotations",
         "I. Mottoes", "II. Phrases", "III. Abbreviations", "IV. Quotations",
         "Part I: Phrases", "Part II: Mottoes", "Part III: Abbreviations",
         "Part IV: Quotations",
         "N.B. There are no macra on this test.">>

\* s begins with the words ws whatever the case of its letters, one or more
\* whitespace characters between them: ^w1\s+w2\s+...wn with re.IGNORECASE
RECURSIVE StartsWithWords(_, _)
StartsWithWords(s, ws) ==
    /\ lower_startswith(s, ws[1])
    /\ \/ Len(ws) = 1
       \/ LET r == SliceFrom(s, Len(ws[1]))
          IN  /\ r # ""
              /\ CharAt(r, 0) \in Whitespace
              /\ StartsWithWords(lstrip(r), Tail(ws))

AllIn(s, set) == \A k \in 0..(Len(s) - 1) : CharAt(s, k) \in set
AlphaSpace(s) == \A k \in 0..(Len(s) - 1) : isalpha(CharAt(s, k)) \/ CharAt(s, k) \in Whitespace

\* .*$ : no newline up to the end, but for one that ends the text
DotStarEnd(s) == \A k \in 0..(Len(s) - 2) : CharAt(s, k) # "\n"

\* the text in front of a match of  \d{4}\s*-?\s*$
BeforeYear(s) ==
    LET t1 == rstrip(s)
        t2 == IF endswith(t1, "-") THEN rstrip(Slice(t1, 0, Len(t1) - 1)) ELSE t1
    IN  IF Len(t2) >= 4 /\ AllIn(SliceFrom(t2, Len(t2) - 4), Range(Digits))
        THEN [ok |-> TRUE, head |-> Slice(t2, 0, Len(t2) - 4)]
        ELSE [ok |-> FALSE, head |-> ""]

\* line 144: ^(STATE\s+LATIN\s+FORUM|FJCL\s+State\s+(Latin\s+)?Forum), IGNORECASE
IsForumHeader(text) ==
    \/ StartsWithWords(text, <<"state", "latin", "forum">>)
    \/ StartsWithWords(text, <<"fjcl", "state", "latin", "forum">>)
    \/ StartsWithWords(text, <<"fjcl", "state", "forum">>)

\* line 148: ^[A-Za-z\s]+I{0,3}\s*-\s*States?\s+\d{4}\s*-?\s*$
IsSubjectStatesYear(text) ==
    LET y == BeforeYear(text)
        d == FirstIn(y.head, {"-"})
        rest == lstrip(SliceFrom(y.head, d + 1))
        Blank(x) == x # "" /\ AllIn(x, Whitespace)
    IN  /\ y.ok
        /\ d < Len(y.head)
        /\ d >= 1
        /\ AlphaSpace(Slice(y.head, 0, d))
        /\ \/ startswith(rest, "States") /\ Blank(SliceFrom(rest, 6))
           \/ startswith(rest, "State") /\ Blank(SliceFrom(rest, 5))

\* line 152: ^[A-Za-z\s]+\d{4}\s*-?\s*$
IsSubjectYear(text) ==
    LET y == BeforeYear(text)
    IN  y.ok /\ y.head # "" /\ AlphaSpace(y.head)

\* line 172: ^Part\s+[IVX\d]+[\.\)\s*:]\s*.*$
IsPartHeader(text) ==
    /\ startswith(text, "Part")
    /\ LET r == SliceFrom(text, 4)
           t == lstrip(r)
           n == FirstNotIn(t, {"I", "V", "X"} \cup Range(Digits))
       IN  /\ r # ""
           /\ CharAt(r, 0) \in Whitespace
           /\ n >= 1
           /\ n < Len(t)
           /\ CharAt(t, n) \in {".", ")", "*", ":"} \cup Whitespace
           /\ DotStarEnd(lstrip(SliceFrom(t, n + 1)))

\* line 177: ^[IVX]+\.\s*.*$
IsRomanHeader(text) ==
    LET n == FirstNotIn(text, {"I", "V", "X"})
    IN  /\ n >= 1
        /\ n < Len(text)
        /\ CharAt(text, n) = "."
        /\ DotStarEnd(lstrip(SliceFrom(text, n + 1)))

instruction_keywords ==
    {"choose", "identify", "complete", "select", "match", "find", "determine", "given"}

\* line 189: ^Items\s+\d+[EnDash-]\d+:
IsItemsHeader(text) ==
    /\ startswith(text, "Items")
    /\ LET r == SliceFrom(text, 5)
           t == lstrip(r)
           n == FirstNotIn(t, Range(Digits))
           u == SliceFrom(t, n + 1)
           m == FirstNotIn(u, Range(Digits))
       IN  /\ r # ""
           /\ CharAt(r, 0) \in Whitespace
           /\ n >= 1
           /\ n < Len(t)
           /\ CharAt(t, n) \in {EnDash, "-"}
           /\ m >= 1
           /\ m < Len(u)
           /\ CharAt(u, m) = ":"

\* line 197: ^[A-Za-z\s]+Test$
IsSubjectTest(text) ==
    LET t == IF endswith(text, "\n") THEN Slice(text, 0, Len(text) - 1) ELSE text
    IN  \/ Len(text) > 4 /\ endswith(text, "Test") /\ AlphaSpace(text)
        \/ Len(t) > 4 /\ endswith(t, "Test") /\ AlphaSpace(t)

\* lines 142-200, mode 'detect'
DetectHeader(text) ==
    \/ IsForumHeader(text)
    \/ IsSubjectStatesYear(text)
    \/ IsSubjectYear(text)
    \/ text \in section_patterns
    \/ Len(split(text)) = 1 /\ endswith(text, ":")
    \/ Len(split(text)) <= 2 /\ endswith(text, ":")
    \/ Len(split(text)) = 1
    \/ IsPartHeader(text)
    \/ IF IsRomanHeader(text)
       THEN /\ Len(split(text)) <= 3
            /\ \A keyword \in instruction_keywords : ~InLower(keyword, text)
       ELSE \/ IsItemsHeader(text)
            \/ startswith(text, "N.B.")
            \/ IsSubjectTest(text)

\* lines 202-213, mode 'clean': the headers are tried in the order of the list
\* (k is where the loop of line 205 is; it goes on at the next header that
\* is a prefix of the text)
RECURSIVE CleanHeader(_, _)
CleanHeader(cleaned_text, k) ==
    LET found == {m \in k..Len(prefix_headers) :
                    lower_startswith(cleaned_text, prefix_headers[m])}
        next == CHOOSE m \in found : \A x \in found : m <= x
    IN  IF found = {} THEN strip(cleaned_text)
        ELSE CleanHeader(strip(SliceFrom(cleaned_text, Len(prefix_headers[next]))),
                         next + 1)

handle_section_headers(text, mode) ==
    IF text = "" THEN (IF mode = "detect" THEN FALSE ELSE "")
    ELSE IF mode = "detect" THEN DetectHeader(text)
    ELSE CleanHeader(text, 1)

(***************************************************************************)
(* simple_parser.parse_test_file: a state machine over the characters of   *)
(* the file content                                                        *)
(***************************************************************************)
MaxBlocks == 3

\* A file content is up to MaxBlocks blocks of text.
BFirst == "1. Who a. Rome b. Athens c. Sparta d. Corinth\n"
BSecond == "2. Why a. Rome b. Athens c. Sparta d. old Corinth\n"
BUpper == "3. How A. Rome B. Athens C. Sparta D. old Corinth\n"
BOpen == "4. Who a. Rome\n"
BInstr == "Choose the best answer.\n"
BHeader == "Mythology\n"
SimpleBlocks == {BFirst, BSecond, BUpper, BOpen, BInstr, BHeader}

RECURSIVE Concat(_)
Concat(bs) == IF bs = <<>> THEN "" ELSE Head(bs) \o Concat(Tail(bs))

SimpleContents ==
    {Concat(bs) : bs \in UNION {[1..n -> SimpleBlocks] : n \in 0..MaxBlocks}}

SimpleKeyFiles == {NoFile, KeyFile(<<<<2, "A">>, <<1, "b">>>>)}

\* lines 443-463: r'(\d+)\.\s*([A-D])' without flags
simple_parse_answer_key(content) ==
    IF ~content.exists THEN EmptyMap ELSE CwaAnswers(content.pairs, EmptyMap)

InitSimple ==
    /\ is_pre_2018 = FALSE
    /\ lines = <<>>
    /\ key_content = NoFile
    /\ answer_key = EmptyMap
    /\ questions = <<>>
    /\ current_instruction = DefaultInstruction
    /\ i = 1
    /\ pc = "idle"
    /\ missing_keys = <<>>
    /\ CwaIdle
    /\ FixedIdle
    /\ SemanticIdle
    /\ ToolsIdle
    /\ sp_pc = "loop"
    /\ sp_content \in SimpleContents
    /\ sp_is_pre_2018 \in BOOLEAN
    /\ sp_key_content \in SimpleKeyFiles
    /\ sp_i = 0
    /\ sp_state = "STATE_INSTRUCTION"
    /\ sp_current_instruction = ""
    /\ sp_current_question_num = NoneValue
    /\ sp_current_question_text = ""
    /\ sp_current_options = EmptyMap
    /\ sp_current_option_text = ""
    /\ sp_questions = <<>>

\* lines 250-264: the end of the digits that start at pos
num_end(pos) == pos + FirstNotIn(SliceFrom(sp_content, pos), Range(Digits))

is_number_period(pos) ==
    /\ pos < Len(sp_content)
    /\ num_end(pos) > pos
    /\ num_end(pos) < Len(sp_content)
    /\ CharAt(sp_content, num_end(pos)) = "."

question_num_at(pos) == int(Slice(sp_content, pos, num_end(pos)))

\* lines 266-274
is_option_letter(pos, letter, is_pre) ==
    /\ pos < Len(sp_content) - 1
    /\ IF is_pre
       THEN lower_char(CharAt(sp_content, pos)) = lower_char(letter)
            /\ CharAt(sp_content, pos + 1) = "."
       ELSE upper_char(CharAt(sp_content, pos)) = upper_char(letter)
            /\ CharAt(sp_content, pos + 1) = "."

\* lines 297-299 and 407-409: skip past "number."
AfterNumber(pos) == num_end(pos) + 1

SimpleAt(state) == sp_pc = "loop" /\ sp_i < Len(sp_content) /\ sp_state = state

\* lines 282-302
InstructionToQuestion ==
    /\ SimpleAt("STATE_INSTRUCTION")
    /\ is_number_period(sp_i)
    /\ LET cleaned == handle_section_headers(strip(sp_current_instruction), "clean")
       IN  sp_current_instruction' =
              IF cleaned # "" /\ ~handle_section_headers(cleaned, "detect")
              THEN cleaned
              ELSE ""
    /\ sp_state' = "STATE_QUESTION"
    /\ sp_current_question_num' = question_num_at(sp_i)
    /\ sp_current_question_text' = ""
    /\ sp_current_options' = EmptyMap
    /\ sp_i' = AfterNumber(sp_i)
    /\ UNCHANGED <<sp_content, sp_is_pre_2018, sp_key_content,
                   sp_current_option_text, sp_questions, sp_pc>>
    /\ UNCHANGED notSimpleVars

\* lines 303-306
AccumulateInstruction ==
    /\ SimpleAt("STATE_INSTRUCTION")
    /\ ~is_number_period(sp_i)
    /\ sp_current_instruction' = sp_current_instruction \o CharAt(sp_content, sp_i)
    /\ sp_i' = sp_i + 1
    /\ UNCHANGED <<sp_content, sp_is_pre_2018, sp_key_content, sp_state,
                   sp_current_question_num, sp_current_question_text,
                   sp_current_options, sp_current_option_text, sp_questions, sp_pc>>
    /\ UNCHANGED notSimpleVars

\* lines 310-316
QuestionToOptionA ==
    /\ SimpleAt("STATE_QUESTION")
    /\ is_option_letter(sp_i, "a", sp_is_pre_2018)
    /\ sp_current_question_text' = strip(sp_current_question_text)
    /\ sp_state' = "STATE_OPTION_A"
    /\ sp_current_option_text' = ""
    /\ sp_i' = sp_i + 2
    /\ UNCHANGED <<sp_content, sp_is_pre_2018, sp_key_content,
                   sp_current_instruction, sp_current_question_num,
                   sp_current_options, sp_questions, sp_pc>>
    /\ UNCHANGED notSimpleVars

\* lines 317-320
AccumulateQuestion ==
    /\ SimpleAt("STATE_QUESTION")
    /\ ~is_option_letter(sp_i, "a", sp_is_pre_2018)
    /\ sp_current_question_text' = sp_current_question_text \o CharAt(sp_content, sp_i)
    /\ sp_i' = sp_i + 1
    /\ UNCHANGED <<sp_content, sp_is_pre_2018, sp_key_content, sp_state,
                   sp_current_instruction, sp_current_question_num,
                   sp_current_options, sp_current_option_text, sp_questions, sp_pc>>
    /\ UNCHANGED notSimpleVars

\* the option states, option A waiting for the marker of option C
NextOptionSkipping ==
    [STATE_OPTION_A |-> [key |-> "A", letter |-> "c", state |-> "STATE_OPTION_C"],
     STATE_OPTION_B |-> [key |-> "B", letter |-> "c", state |-> "STATE_OPTION_C"],
     STATE_OPTION_C |-> [key |-> "C", letter |-> "d", state |-> "STATE_OPTION_D"]]

\* the option states that wait for the marker of the next option
NextOption ==
    [STATE_OPTION_A |-> [key |-> "A", letter |-> "b", state |-> "STATE_OPTION_B"],
     STATE_OPTION_B |-> [key |-> "B", letter |-> "c", state |-> "STATE_OPTION_C"],
     STATE_OPTION_C |-> [key |-> "C", letter |-> "d", state |-> "STATE_OPTION_D"]]

\* lines 324-330, 338-344 and 352-358
OptionToNextOption ==
    /\ sp_pc = "loop"
    /\ sp_i < Len(sp_content)
    /\ sp_state \in DOMAIN NextOption
    /\ is_option_letter(sp_i, NextOption[sp_state].letter, sp_is_pre_2018)
    /\ sp_current_options' =
          MapPut(sp_current_options, NextOption[sp_state].key, strip(sp_current_option_text))
    /\ sp_state' = NextOption[sp_state].state
    /\ sp_current_option_text' = ""
    /\ sp_i' = sp_i + 2
    /\ UNCHANGED <<sp_content, sp_is_pre_2018, sp_key_content,
                   sp_current_instruction, sp_current_question_num,
                   sp_current_question_text, sp_questions, sp_pc>>
    /\ UNCHANGED notSimpleVars

\* lines 331-334, 345-348 and 359-362
AccumulateOption ==
    /\ sp_pc = "loop"
    /\ sp_i < Len(sp_content)
    /\ sp_state \in DOMAIN NextOption
    /\ ~is_option_letter(sp_i, NextOption[sp_state].letter, sp_is_pre_2018)
    /\ sp_current_option_text' = sp_current_option_text \o CharAt(sp_content, sp_i)
    /\ sp_i' = sp_i + 1
    /\ UNCHANGED <<sp_content, sp_is_pre_2018, sp_key_content, sp_state,
                   sp_current_instruction, sp_current_question_num,
                   sp_current_question_text, sp_current_options, sp_questions, sp_pc>>
    /\ UNCHANGED notSimpleVars

\* lines 373-381: the lines of option D that are no section headers
CleanOptionD(text) ==
    LET ls == split_newline(strip(text))
        stripped == [k \in 1..Len(ls) |-> strip(ls[k])]
        cleaned_lines ==
            SelectSeq(stripped,
                      LAMBDA line : line # "" /\ ~handle_section_headers(line, "detect"))
    IN  join(cleaned_lines)

\* lines 387-394
SimpleRecord(options) ==
    [question_number |-> sp_current_question_num,
     question |-> sp_current_question_text,
     options |-> options,
     type |-> "multiple_choice",
     instruction |-> IF sp_current_instruction # "" THEN sp_current_instruction
                     ELSE NoneValue,
     correct_answer |-> NoneValue]

\* lines 387-394
AppendRecord(options) == Append(sp_questions, SimpleRecord(options))

\* lines 366-417: option D is closed by a question start or by the end of
\* the content
CloseOptionD ==
    /\ SimpleAt("STATE_OPTION_D")
    /\ is_number_period(sp_i) \/ sp_i >= Len(sp_content) - 1
    /\ LET text == IF is_number_period(sp_i) THEN sp_current_option_text
                   ELSE sp_current_option_text \o CharAt(sp_content, sp_i)
           options == MapPut(sp_current_options, "D", CleanOptionD(text))
       IN  /\ sp_current_option_text' = text
           /\ sp_questions' = AppendRecord(options)
           /\ IF is_number_period(sp_i)
              THEN /\ sp_state' = "STATE_QUESTION"
                   /\ sp_current_question_num' = question_num_at(sp_i)
                   /\ sp_current_question_text' = ""
                   /\ sp_current_options' = EmptyMap
                   /\ sp_i' = AfterNumber(sp_i)
                   /\ UNCHANGED sp_current_instruction
              ELSE /\ sp_state' = "STATE_INSTRUCTION"
                   /\ sp_current_instruction' = ""
                   /\ sp_current_options' = options
                   /\ sp_i' = sp_i + 1
                   /\ UNCHANGED <<sp_current_question_num, sp_current_question_text>>
    /\ UNCHANGED <<sp_content, sp_is_pre_2018, sp_key_content, sp_pc>>
    /\ UNCHANGED notSimpleVars

\* lines 418-421
AccumulateOptionD ==
    /\ SimpleAt("STATE_OPTION_D")
    /\ ~(is_number_period(sp_i) \/ sp_i >= Len(sp_content) - 1)
    /\ sp_current_option_text' = sp_current_option_text \o CharAt(sp_content, sp_i)
    /\ sp_i' = sp_i + 1
    /\ UNCHANGED <<sp_content, sp_is_pre_2018, sp_key_content, sp_state,
                   sp_current_instruction, sp_current_question_num,
                   sp_current_question_text, sp_current_options, sp_questions, sp_pc>>
    /\ UNCHANGED notSimpleVars

\* lines 425-432: the answers of the key are written into the records
SimpleFinish ==
    /\ sp_pc = "loop"
    /\ sp_i >= Len(sp_content)
    /\ LET key == simple_parse_answer_key(sp_key_content)
       IN  sp_questions' =
              [k \in 1..Len(sp_questions) |->
                  IF sp_questions[k].question_number \in DOMAIN key
                  THEN [sp_questions[k] EXCEPT
                           !.correct_answer = key[sp_questions[k].question_number]]
                  ELSE sp_questions[k]]
    /\ sp_pc' = "done"
    /\ UNCHANGED <<sp_content, sp_is_pre_2018, sp_key_content, sp_i, sp_state,
                   sp_current_instruction, sp_current_question_num,
                   sp_current_question_text, sp_current_options,
                   sp_current_option_text>>
    /\ UNCHANGED notSimpleVars

NextSimple ==
    \/ InstructionToQuestion
    \/ AccumulateInstruction
    \/ QuestionToOptionA
    \/ AccumulateQuestion
    \/ OptionToNextOption
    \/ AccumulateOption
    \/ CloseOptionD
    \/ AccumulateOptionD
    \/ SimpleFinish

SpecSimple == InitSimple /\ [][NextSimple]_vars

(***************************************************************************)
(* Claims about simple_parser.parse_test_file                              *)
(***************************************************************************)
\* sub in s
Contains(sub, s) ==
    \E k \in 0..(Len(s) - Len(sub)) : Slice(s, k, k + Len(sub)) = sub

\* the blocks that hold one well-formed question in the letter case of the
\* era, and the record each of them describes
WellFormedBlock(is_pre) == IF is_pre THEN BSecond ELSE BUpper
WellFormedNumber(is_pre) == IF is_pre THEN 2 ELSE 3
WellFormedBody(is_pre) == IF is_pre THEN "Why" ELSE "How"
WellFormedOptions ==
    [A |-> "Rome", B |-> "Athens", C |-> "Sparta", D |-> "old Corinth"]

SimpleDone == sp_pc = "done"

\* C11: instruction text between the end of option D of one question and
\* the start of the next question becomes the instruction of the following
\* record and is no part of option D of the preceding record.
C11_InstructionAfterOptionD ==
    LET block == WellFormedBlock(sp_is_pre_2018)
    IN  (SimpleDone /\ sp_content = block \o BInstr \o block) =>
            /\ Len(sp_questions) = 2
            /\ sp_questions[2].instruction = strip(BInstr)
            /\ ~Contains(strip(BInstr), sp_questions[1].options["D"])

\* C12: a record is appended only if its four options are non-empty after
\* cleaning; the question with the options a. Rome b. Athens c. Sparta
\* d. Corinth is emitted with D equal to Corinth.
C12_OnlyCompleteRecords ==
    /\ \A k \in DOMAIN sp_questions :
          \A l \in UpperLetters :
              /\ l \in DOMAIN sp_questions[k].options
              /\ sp_questions[k].options[l] # ""
    /\ (SimpleDone /\ sp_is_pre_2018 /\ sp_content = BFirst) =>
          /\ Len(sp_questions) = 1
          /\ sp_questions[1].options["D"] = "Corinth"

\* C13: a question start met in the body or in option A, B or C of a
\* question drops that question and starts the new one, so the well-formed
\* question that follows an incomplete one is emitted as its own record.
C13_QuestionStartClosesRecord ==
    (SimpleDone /\ sp_content = BOpen \o WellFormedBlock(sp_is_pre_2018)) =>
        \E k \in DOMAIN sp_questions :
            /\ sp_questions[k].question_number = WellFormedNumber(sp_is_pre_2018)
            /\ sp_questions[k].question = WellFormedBody(sp_is_pre_2018)
            /\ sp_questions[k].options = WellFormedOptions

OptionStates == {"STATE_OPTION_A", "STATE_OPTION_B", "STATE_OPTION_C", "STATE_OPTION_D"}

\* C14: the state machine enters an option state only at a marker in the
\* letter case of the era: a lowercase letter in a pre-2018 file, an
\* uppercase letter in a post-2018 file.
C14_EraDeterminesCase ==
    [][(sp_state' # sp_state /\ sp_state' \in OptionStates) =>
          CharAt(sp_content, sp_i) \in
              (IF sp_is_pre_2018 THEN LowerLetters ELSE UpperLetters)]_vars

(***************************************************************************)
(* fixed_parser.parse_test_file_fixed: the patterns of the line loop.  A   *)
(* line is the text of one element of content.split('\n') after strip().   *)
(***************************************************************************)
\* s begins with the words ws, one or more whitespace characters between
\* them: the regular expression ^w1\s+w2\s+...wn
RECURSIVE MatchWords(_, _)
MatchWords(s, ws) ==
    /\ startswith(s, ws[1])
    /\ \/ Len(ws) = 1
       \/ LET r == SliceFrom(s, Len(ws[1]))
          IN  /\ r # ""
              /\ CharAt(r, 0) \in Whitespace
              /\ MatchWords(lstrip(r), Tail(ws))

\* (.+)$ : one character or more, none of them a newline
DotPlusEnd(s) == s # "" /\ "\n" \notin {CharAt(s, k) : k \in 0..(Len(s) - 1)}

\* ^\d{4}\s+ followed by the words ws
YearThenWords(line, ws) ==
    /\ Len(line) > 4
    /\ AllIn(Slice(line, 0, 4), Range(Digits))
    /\ CharAt(line, 4) \in Whitespace
    /\ MatchWords(lstrip(SliceFrom(line, 4)), ws)

\* lines 39, 155 and 258: ^\d{4}\s+FJCL\s+State\s+Latin\s+Forum
IsLatinForumHeader(line) == YearThenWords(line, <<"FJCL", "State", "Latin", "Forum">>)

\* lines 94-96 and 203-205: ^\d{4}\s+FJCL\s+State\s+(Latin\s+)?Forum; the
\* patterns of lines 95, 96, 204 and 205 match no line that this one does
\* not match
IsForumHeaderLine(line) ==
    \/ YearThenWords(line, <<"FJCL", "State", "Latin", "Forum">>)
    \/ YearThenWords(line, <<"FJCL", "State", "Forum">>)

\* ^(chars+)(sep)\s*(.+)$ : the text after the separator, stripped
Prefixed(line, chars, seps) ==
    LET n == FirstNotIn(line, chars)
    IN  [ok |-> /\ n >= 1
                /\ n < Len(line)
                /\ CharAt(line, n) \in seps
                /\ DotPlusEnd(SliceFrom(line, n + 1)),
         head |-> Slice(line, 0, n),
         rest |-> strip(SliceFrom(line, n + 1))]

RomanChars == {"I", "V", "X"}

\* lines 45: ^([IVX]+):\s*(.+)$
section_match(line) == Prefixed(line, RomanChars, {":"})

\* lines 52, 159 and 262: ^([IVX]+)\.\s*(.+)$
roman_period_match(line) == Prefixed(line, RomanChars, {"."})

\* lines 108 and 216: ^(\d+)\.\s*(.+)$
fixed_question_match(line) == Prefixed(line, Range(Digits), {"."})

\* lines 92, 154, 201 and 257: ^\d+\.
StartsWithNumberPeriod(line) ==
    LET n == FirstNotIn(line, Range(Digits))
    IN  n >= 1 /\ n < Len(line) /\ CharAt(line, n) = "."

\* lines 93, 153 and 170: ^([a-d])\.\s*(.+)$ ; lines 202, 256 and 272:
\* ^([A-D])\.\s*(.+)$
fixed_option_match(line, is_pre) ==
    [ok |-> /\ Len(line) >= 2
            /\ CharAt(line, 0) \in (IF is_pre THEN LowerLetters ELSE UpperLetters)
            /\ CharAt(line, 1) = "."
            /\ DotPlusEnd(SliceFrom(line, 2)),
     letter |-> Slice(line, 0, 1),
     rest |-> strip(SliceFrom(line, 2))]

\* ^Part\s+(chars+)(\s*)(sep)\s*(.+)$ ; gap tells whether \s* may stand in
\* front of the separator
PartLine(line, chars, gap, seps) ==
    LET r == SliceFrom(line, 4)
        t == lstrip(r)
        n == FirstNotIn(t, chars)
        u == SliceFrom(t, n)
        v == IF gap THEN lstrip(u) ELSE u
    IN  [ok |-> /\ startswith(line, "Part")
                /\ r # ""
                /\ CharAt(r, 0) \in Whitespace
                /\ n >= 1
                /\ v # ""
                /\ CharAt(v, 0) \in seps
                /\ DotPlusEnd(SliceFrom(v, 1)),
         rest |-> strip(SliceFrom(v, 1))]

\* lines 61, 98, 135, 160, 238 and 263: ^Part\s+(\d+)\)\s*(.+)$
part_match(line) == PartLine(line, Range(Digits), FALSE, {")"})

\* line 72: ^Part\s+(\d+)\s*EnDash\s*(.+)$
part_dash_match(line) == PartLine(line, Range(Digits), TRUE, {EnDash})

\* lines 78, 157 and 260: ^Part\s+(\d+)-\s*(.+)$
part_hyphen_match(line) == PartLine(line, Range(Digits), FALSE, {"-"})

\* lines 84, 158 and 261: ^Part\s+([IVX]+):\s*(.+)$
part_roman_colon_match(line) == PartLine(line, RomanChars, FALSE, {":"})

\* lines 97, 156, 206 and 259: ^Part\s+\d+\s*[-EnDash]\s*(.+)$
part_divider_match(line) == PartLine(line, Range(Digits), TRUE, {"-", EnDash})

\* lines 64, 101, 163, 209 and 266
fixed_instruction_words ==
    {"choose", "match", "identify", "give", "complete", "select", "answer",
     "refer", "use", "items", "for questions"}

HasInstructionWord(line) == \E word \in fixed_instruction_words : InLower(word, line)

\* lines 91-101 and 200-209
IsFixedInstruction(line, is_pre) ==
    /\ ~startswith(line, "N.B.")
    /\ ~StartsWithNumberPeriod(line)
    /\ ~fixed_option_match(line, is_pre).ok
    /\ ~IsForumHeaderLine(line)
    /\ ~part_divider_match(line).ok
    /\ is_pre => ~part_match(line).ok
    /\ endswith(line, ".") \/ endswith(line, ":")
    /\ Len(split(line)) > 2
    /\ HasInstructionWord(line)

\* lines 152-163 and 255-266, but for the test of current_question
IsFixedContinuation(line, is_pre) ==
    /\ ~fixed_option_match(line, is_pre).ok
    /\ ~StartsWithNumberPeriod(line)
    /\ ~IsLatinForumHeader(line)
    /\ ~part_divider_match(line).ok
    /\ ~part_hyphen_match(line).ok
    /\ ~part_roman_colon_match(line).ok
    /\ ~roman_period_match(line).ok
    /\ ~part_match(line).ok
    /\ ~startswith(line, "N.B.")
    /\ strip(line) # ""
    /\ ~HasInstructionWord(line)

\* the first match of \s+[b-d]\.\s+ (or [B-D]) in text: where its whitespace
\* starts, or Len(text) if there is none
InlineMarkerStart(text, letters) ==
    LET Matches(p) ==
            /\ CharAt(text, p) \in Whitespace
            /\ LET q == p + FirstNotIn(SliceFrom(text, p), Whitespace)
               IN  /\ q + 2 < Len(text)
                   /\ CharAt(text, q) \in letters
                   /\ CharAt(text, q + 1) = "."
                   /\ CharAt(text, q + 2) \in Whitespace
        found == {p \in 0..(Len(text) - 1) : Matches(p)}
    IN  IF found = {} THEN Len(text)
        ELSE CHOOSE p \in found : \A x \in found : p <= x

\* lines 178 and 280: re.split(r'\s+([b-d])\.\s+', text)
RECURSIVE InlineSplit(_, _)
InlineSplit(text, letters) ==
    LET p == InlineMarkerStart(text, letters)
        q == p + FirstNotIn(SliceFrom(text, p), Whitespace)
    IN  IF p = Len(text) THEN <<text>>
        ELSE <<Slice(text, 0, p), CharAt(text, q)>>
             \o InlineSplit(lstrip(SliceFrom(text, q + 2)), letters)

\* lines 140-142 and 243-245: the three re.sub one after the other
\* ^For\s+\d+-\d+\s+ , ^For\s+questions\s+\d+-\d+\s+ and
\* ^For\s+questions\s+\d+-\d+\s+please\s+
AfterRange(s) ==
    LET n == FirstNotIn(s, Range(Digits))
        u == SliceFrom(s, n + 1)
        m == FirstNotIn(u, Range(Digits))
        w == SliceFrom(u, m)
    IN  [ok |-> /\ n >= 1
                /\ n < Len(s)
                /\ CharAt(s, n) = "-"
                /\ m >= 1
                /\ w # ""
                /\ CharAt(w, 0) \in Whitespace,
         rest |-> lstrip(w)]

WordThenSpace(s, word) ==
    [ok |-> /\ startswith(s, word)
            /\ Len(s) > Len(word)
            /\ CharAt(s, Len(word)) \in Whitespace,
     rest |-> lstrip(SliceFrom(s, Len(word)))]

StripRange(s, ws) ==
    LET Step(t, k) == IF k > Len(ws) THEN t
                      ELSE IF t.ok THEN WordThenSpace(t.rest, ws[k]) ELSE t
        a == Step(Step([ok |-> TRUE, rest |-> s], 1), 2)
        b == IF a.ok THEN AfterRange(a.rest) ELSE a
        c == Step(b, 3)
    IN  IF c.ok THEN c.rest ELSE s

RemoveRangePrefix(instruction_text) ==
    StripRange(StripRange(StripRange(instruction_text, <<"For">>),
                          <<"For", "questions">>),
               <<"For", "questions", "please">>)

(***************************************************************************)
(* fixed_parser.parse_test_file_fixed and convert_test_to_json_fixed       *)
(***************************************************************************)
MaxFixedChunks == 3

PackedLine(is_pre) ==
    IF is_pre THEN "a. Rome b. Athens c. Sparta d. Corinth"
    ELSE "A. Rome B. Athens C. Sparta D. Corinth"
SingleLine(is_pre) == IF is_pre THEN "a. Rome" ELSE "A. Rome"

\* A test file is up to MaxFixedChunks chunks of lines.
FixedNoise == <<"", "2010 FJCL State Latin Forum", "Part 2 " \o EnDash \o " Mottoes",
                "N.B. No macra.">>
FixedChunks(is_pre) ==
    {FixedNoise,
     <<"I: Vocabulary">>,
     <<"II. Identify the god.", "2. Why", PackedLine(is_pre)>>,
     <<"Part 1) For 1-5 choose the best answer.", "Part 2) For 6-9 name the god">>,
     <<"Choose the best answer.">>,
     <<"1. Who", PackedLine(is_pre)>>,
     <<"3. How", SingleLine(is_pre)>>,
     <<"of them all">>}

FixedFiles(is_pre) ==
    {Flatten(cs) : cs \in UNION {[1..n -> FixedChunks(is_pre)] : n \in 0..MaxFixedChunks}}

FixedKeyFiles == {NoFile, KeyFile(<<<<1, "A">>, <<3, "b">>>>)}

InitFixed ==
    /\ is_pre_2018 = FALSE
    /\ lines = <<>>
    /\ key_content = NoFile
    /\ answer_key = EmptyMap
    /\ questions = <<>>
    /\ current_instruction = DefaultInstruction
    /\ i = 1
    /\ pc = "idle"
    /\ missing_keys = <<>>
    /\ CwaIdle
    /\ SimpleIdle
    /\ SemanticIdle
    /\ ToolsIdle
    /\ fp_pc = "loop"
    /\ fp_is_pre_2018 \in BOOLEAN
    /\ fp_lines \in FixedFiles(fp_is_pre_2018)
    /\ fp_key_content \in FixedKeyFiles
    /\ fp_i = 1
    /\ fp_questions = <<>>
    /\ fp_current_question = NoQuestion
    /\ fp_current_section = NoneValue
    /\ fp_section_context = NoneValue
    /\ fp_current_instruction = NoneValue
    /\ fp_result = NoResult
    /\ fp_run = 1
    /\ fp_first = NoResult

\* the branch of the line loop (lines 33-295) that a line takes; has tells
\* whether current_question is set
BranchOf(raw, is_pre, has) ==
    LET line == strip(raw)
    IN  IF line = "" THEN "blank"
        ELSE IF IsLatinForumHeader(line) THEN "header"
        ELSE IF is_pre /\ section_match(line).ok THEN "section"
        ELSE IF is_pre /\ roman_period_match(line).ok THEN "roman"
        ELSE IF is_pre /\ part_match(line).ok THEN "part_section"
        ELSE IF is_pre /\ (\/ part_dash_match(line).ok
                           \/ part_hyphen_match(line).ok
                           \/ part_roman_colon_match(line).ok) THEN "divider"
        ELSE IF IsFixedInstruction(line, is_pre) THEN "instruction"
        ELSE IF fixed_question_match(line).ok THEN "question"
        ELSE IF part_match(line).ok THEN "part_instruction"
        ELSE IF has /\ IsFixedContinuation(line, is_pre) THEN "continuation"
        ELSE IF has /\ fixed_option_match(line, is_pre).ok THEN "option"
        ELSE "other"

\* the branch of every line that a file can hold, computed once
FixedLineSet == UNION {Range(c) : c \in FixedChunks(TRUE) \cup FixedChunks(FALSE)}
FixedBranches ==
    [is_pre \in BOOLEAN, has \in BOOLEAN, line \in FixedLineSet |->
        BranchOf(line, is_pre, has)]

FixedBranch(raw) == FixedBranches[fp_is_pre_2018, fp_current_question.exists, raw]

FixedAt(branch) ==
    /\ fp_pc = "loop"
    /\ fp_i <= Len(fp_lines)
    /\ FixedBranch(fp_lines[fp_i]) = branch

FixedLine == strip(fp_lines[fp_i])

fixedInputs == <<fp_lines, fp_is_pre_2018, fp_key_content>>
fixedRuns == <<fp_pc, fp_result, fp_run, fp_first>>

\* lines 35-40, 72-87, and the lines that no branch takes
FixedSkip ==
    /\ \/ FixedAt("blank")
       \/ FixedAt("header")
       \/ FixedAt("divider")
       \/ FixedAt("other")
    /\ fp_i' = fp_i + 1
    /\ UNCHANGED <<fixedInputs, fixedRuns, fp_questions, fp_current_question,
                   fp_current_section, fp_section_context, fp_current_instruction>>
    /\ UNCHANGED notFixedVars

\* lines 45-49
FixedSection ==
    /\ FixedAt("section")
    /\ fp_current_section' = FixedLine
    /\ fp_section_context' = FixedLine
    /\ fp_i' = fp_i + 1
    /\ UNCHANGED <<fixedInputs, fixedRuns, fp_questions, fp_current_question,
                   fp_current_instruction>>
    /\ UNCHANGED notFixedVars

\* lines 52-58
FixedRomanSection ==
    /\ FixedAt("roman")
    /\ fp_current_section' = roman_period_match(FixedLine).rest
    /\ fp_section_context' = roman_period_match(FixedLine).rest
    /\ fp_i' = fp_i + 1
    /\ UNCHANGED <<fixedInputs, fixedRuns, fp_questions, fp_current_question,
                   fp_current_instruction>>
    /\ UNCHANGED notFixedVars

\* lines 61-69
FixedPartSection ==
    /\ FixedAt("part_section")
    /\ IF HasInstructionWord(FixedLine)
       THEN /\ fp_current_section' = part_match(FixedLine).rest
            /\ fp_section_context' = part_match(FixedLine).rest
       ELSE UNCHANGED <<fp_current_section, fp_section_context>>
    /\ fp_i' = fp_i + 1
    /\ UNCHANGED <<fixedInputs, fixedRuns, fp_questions, fp_current_question,
                   fp_current_instruction>>
    /\ UNCHANGED notFixedVars

\* lines 91-105 and 200-213
FixedInstruction ==
    /\ FixedAt("instruction")
    /\ fp_current_instruction' = FixedLine
    /\ fp_i' = fp_i + 1
    /\ UNCHANGED <<fixedInputs, fixedRuns, fp_questions, fp_current_question,
                   fp_current_section, fp_section_context>>
    /\ UNCHANGED notFixedVars

\* the record that questions.append(current_question) appends
FixedRecord(q) == [f \in (DOMAIN q) \ {"exists"} |-> q[f]]

\* len(current_question["options"])
OptionCount(q) == Cardinality(DOMAIN q.options)

\* lines 111 and 219: the threshold at a question start
ThresholdAtQuestion == IF fp_is_pre_2018 THEN 4 ELSE 1

\* line 298: the threshold at the end of the input
ThresholdAtEnd == 1

SavePrevious(threshold) ==
    IF fp_current_question.exists /\ OptionCount(fp_current_question) >= threshold
    THEN Append(fp_questions, FixedRecord(fp_current_question))
    ELSE fp_questions

\* lines 108-132 and 216-235
FixedQuestion ==
    /\ FixedAt("question")
    /\ fp_questions' = SavePrevious(ThresholdAtQuestion)
    /\ LET m == fixed_question_match(FixedLine)
           question_text == m.rest
           with_context == fp_is_pre_2018 /\ fp_section_context \notin {NoneValue, ""}
       IN  fp_current_question' =
              [exists |-> TRUE,
               question_number |-> int(m.head),
               question |-> IF with_context
                            THEN strip(fp_section_context \o " " \o question_text)
                            ELSE question_text,
               options |-> EmptyMap,
               type |-> "multiple_choice",
               section |-> IF fp_is_pre_2018 THEN fp_current_section ELSE NoneValue,
               section_context |-> IF fp_is_pre_2018 THEN fp_section_context
                                   ELSE NoneValue,
               instruction |-> fp_current_instruction]
    /\ fp_i' = fp_i + 1
    /\ UNCHANGED <<fixedInputs, fixedRuns, fp_current_section, fp_section_context,
                   fp_current_instruction>>
    /\ UNCHANGED notFixedVars

\* lines 135-148 and 238-251
FixedPartInstruction ==
    /\ FixedAt("part_instruction")
    /\ fp_current_instruction' = strip(RemoveRangePrefix(part_match(FixedLine).rest))
    /\ fp_i' = fp_i + 1
    /\ UNCHANGED <<fixedInputs, fixedRuns, fp_questions, fp_current_question,
                   fp_current_section, fp_section_context>>
    /\ UNCHANGED notFixedVars

\* lines 152-166 and 255-269
FixedContinuation ==
    /\ FixedAt("continuation")
    /\ fp_current_question' =
          [fp_current_question EXCEPT !.question = @ \o " " \o FixedLine]
    /\ fp_i' = fp_i + 1
    /\ UNCHANGED <<fixedInputs, fixedRuns, fp_questions,
                   fp_current_section, fp_section_context, fp_current_instruction>>
    /\ UNCHANGED notFixedVars

\* lines 185-189 and 287-291: the letters and texts of parts[1:]
RECURSIVE PutParts(_, _, _)
PutParts(options, parts, k) ==
    IF k + 1 > Len(parts) THEN options
    ELSE PutParts(MapPut(options, upper_char(parts[k]), strip(parts[k + 1])), parts, k + 2)

\* lines 172-192 and 274-294
FixedOptions(options, line) ==
    LET m == fixed_option_match(line, fp_is_pre_2018)
        option_letter == upper_char(m.letter)
        option_text == m.rest
        letters == IF fp_is_pre_2018 THEN {"b", "c", "d"} ELSE {"B", "C", "D"}
        parts == InlineSplit(option_text, letters)
        first == IF fp_is_pre_2018 THEN option_letter ELSE "A"
    IN  IF InlineMarkerStart(option_text, letters) < Len(option_text)
        THEN PutParts(MapPut(options, first, strip(parts[1])), parts, 2)
        ELSE MapPut(options, option_letter, option_text)

\* lines 170-193 and 272-295
FixedOption ==
    /\ FixedAt("option")
    /\ fp_current_question' =
          [fp_current_question EXCEPT !.options = FixedOptions(@, FixedLine)]
    /\ fp_i' = fp_i + 1
    /\ UNCHANGED <<fixedInputs, fixedRuns, fp_questions,
                   fp_current_section, fp_section_context, fp_current_instruction>>
    /\ UNCHANGED notFixedVars

\* lines 297-301
FixedEnd ==
    /\ fp_pc = "loop"
    /\ fp_i > Len(fp_lines)
    /\ fp_questions' = SavePrevious(ThresholdAtEnd)
    /\ fp_pc' = "convert"
    /\ UNCHANGED <<fixedInputs, fp_i, fp_current_question, fp_current_section,
                   fp_section_context, fp_current_instruction, fp_result, fp_run,
                   fp_first>>
    /\ UNCHANGED notFixedVars

\* lines 303-319: r'(\d+)\.\s+([A-D])' without flags
fixed_parse_answer_key(content) ==
    IF ~content.exists THEN EmptyMap ELSE CwaAnswers(content.pairs, EmptyMap)

\* the lists that list(set(...)) can be: the order in which a set of
\* strings is iterated depends on the hash seed of the interpreter
Orderings(S) ==
    {order \in [1..Cardinality(S) -> S] :
        \A a, b \in 1..Cardinality(S) : a # b => order[a] # order[b]}

\* line 362
SectionsOf(qs) ==
    {qs[k].section : k \in {n \in 1..Len(qs) : qs[n].section \notin {NoneValue, ""}}}

\* lines 341-371
FixedConvert ==
    /\ fp_pc = "convert"
    /\ LET answers == fixed_parse_answer_key(fp_key_content)
           with_answers ==
               [k \in 1..Len(fp_questions) |->
                   [f \in (DOMAIN fp_questions[k]) \cup {"correct_answer"} |->
                       IF f # "correct_answer" THEN fp_questions[k][f]
                       ELSE IF fp_questions[k].question_number \in DOMAIN answers
                            THEN answers[fp_questions[k].question_number]
                            ELSE "?"]]
       IN  \E sections \in Orderings(SectionsOf(fp_questions)) :
              /\ fp_questions' = with_answers
              /\ fp_result' =
                    [exists |-> TRUE,
                     test_info |-> [name |-> "Mythology",
                                    year |-> IF fp_is_pre_2018 THEN "state_2010"
                                             ELSE "state_2019",
                                    subject |-> "Mythology",
                                    total_questions |-> Len(fp_questions),
                                    sections |-> sections],
                     questions |-> with_answers]
    /\ fp_pc' = "done"
    /\ UNCHANGED <<fixedInputs, fp_i, fp_current_question, fp_current_section,
                   fp_section_context, fp_current_instruction, fp_run, fp_first>>
    /\ UNCHANGED notFixedVars

\* convert_test_to_json_fixed is run once more on the same directory
FixedRunAgain ==
    /\ fp_pc = "done"
    /\ fp_run = 1
    /\ fp_first' = fp_result
    /\ fp_run' = 2
    /\ fp_pc' = "loop"
    /\ fp_i' = 1
    /\ fp_questions' = <<>>
    /\ fp_current_question' = NoQuestion
    /\ fp_current_section' = NoneValue
    /\ fp_section_context' = NoneValue
    /\ fp_current_instruction' = NoneValue
    /\ fp_result' = NoResult
    /\ UNCHANGED fixedInputs
    /\ UNCHANGED notFixedVars

NextFixed ==
    \/ FixedSkip
    \/ FixedSection
    \/ FixedRomanSection
    \/ FixedPartSection
    \/ FixedInstruction
    \/ FixedQuestion
    \/ FixedPartInstruction
    \/ FixedContinuation
    \/ FixedOption
    \/ FixedEnd
    \/ FixedConvert
    \/ FixedRunAgain

SpecFixed == InitFixed /\ [][NextFixed]_vars

(***************************************************************************)
(* Claims about fixed_parser                                               *)
(***************************************************************************)
\* C15: a continuation line that follows an option line of the current
\* question is appended, after one space, to the text of an option of that
\* question and leaves the question body as it is.
C15_ContinuationJoinsOpenOption ==
    [][(FixedContinuation /\ DOMAIN fp_current_question.options # {}) =>
          /\ fp_current_question'.question = fp_current_question.question
          /\ \E l \in DOMAIN fp_current_question.options :
                fp_current_question'.options[l] =
                    fp_current_question.options[l] \o " " \o FixedLine]_vars

AllFourOptions(q) == DOMAIN q.options = UpperLetters

\* C16: the record closed by the end of the input is emitted under the
\* condition of a record closed by a question start, so every record of a
\* pre-2018 file, the last one too, has the four options A, B, C and D.
C16_OneThreshold ==
    fp_is_pre_2018 =>
        \A k \in DOMAIN fp_questions : AllFourOptions(fp_questions[k])

\* C17: the second run over a directory returns what the first run
\* returned, the order of test_info.sections included.
C17_SameResultTwice ==
    (fp_run = 2 /\ fp_pc = "done") => fp_result = fp_first

(***************************************************************************)
(* semantic_parser: the patterns                                           *)
(***************************************************************************)
\* lines 64-68, repeated at 163-167 and 197-201
instruction_indicators ==
    {"choose", "identify", "select", "complete", "find", "items", "questions",
     "for questions", "match", "derived", "answer", "give", "provide", "determine"}

\* any(line.lower().startswith(ind) for ind in instruction_indicators)
StartsWithIndicator(line) ==
    \E ind \in instruction_indicators : lower_startswith(line, ind)

\* lines 311-324
semantic_headers ==
    {"fjcl state forum", "derivatives", "mythology", "vocabulary", "history",
     "classical art", "classical geography", "mottoes", "abbreviations",
     "quotations", "- states", "state latin forum"}

\* lines 306-338
is_header_or_metadata(line) ==
    \/ \E header \in semantic_headers : InLower(header, line)
    \* r'^\d{4}\s+FJCL'
    \/ /\ Len(line) >= 9
       /\ \A k \in 0..3 : isdigit(CharAt(line, k))
       /\ CharAt(line, 4) \in Whitespace
       /\ startswith(lstrip(SliceFrom(line, 4)), "FJCL")
    \* r'^[IVX]+\.\s*$'
    \/ LET n == FirstNotIn(line, {"I", "V", "X"})
       IN  /\ n >= 1
           /\ n < Len(line)
           /\ CharAt(line, n) = "."
           /\ strip(SliceFrom(line, n + 1)) = ""

\* index of the first character of s at or after p that is not whitespace
SkipSpace(s, p) == p + FirstNotIn(SliceFrom(s, p), Whitespace)

\* r'^(\d+)\.\s*(.*)' on a stripped line
semantic_question_match(line) ==
    LET n == FirstNotIn(line, Range(Digits))
    IN  IF n >= 1 /\ n < Len(line) /\ CharAt(line, n) = "."
        THEN [ok |-> TRUE, num |-> int(Slice(line, 0, n)),
              text |-> lstrip(SliceFrom(line, n + 1))]
        ELSE [ok |-> FALSE, num |-> 0, text |-> ""]

\* r'^([A-D])\.\s+(.+)' on a stripped line, without flags
semantic_option_match(line) ==
    IF /\ Len(line) >= 4
       /\ CharAt(line, 0) \in UpperLetters
       /\ CharAt(line, 1) = "."
       /\ CharAt(line, 2) \in Whitespace
       /\ SkipSpace(line, 2) < Len(line)
    THEN [ok |-> TRUE, letter |-> CharAt(line, 0),
          text |-> SliceFrom(line, SkipSpace(line, 2))]
    ELSE [ok |-> FALSE, letter |-> "", text |-> ""]

\* what the loops of semantic_parse_test ask of a stripped line
SemClass(line) ==
    [blank     |-> line = "",
     \* r'^\d+\.'
     number    |-> semantic_question_match(line).ok,
     question  |-> semantic_question_match(line),
     indicator |-> StartsWithIndicator(line),
     header    |-> is_header_or_metadata(line),
     \* r'^[A-Da-d]\.' and r'^[a-d]\.' with re.IGNORECASE
     any_option |-> /\ Len(line) >= 2
                    /\ CharAt(line, 0) \in (UpperLetters \cup LowerLetters)
                    /\ CharAt(line, 1) = ".",
     \* r'^[A-D]\.'
     upper_option |-> /\ Len(line) >= 2
                      /\ CharAt(line, 0) \in UpperLetters
                      /\ CharAt(line, 1) = ".",
     option    |-> semantic_option_match(line)]

\* [a-d]\. with re.IGNORECASE at index p of s
SemMarkerAt(s, p) ==
    /\ p + 1 < Len(s)
    /\ CharAt(s, p) \in (UpperLetters \cup LowerLetters)
    /\ CharAt(s, p + 1) = "."

\* \w
WordChars == Range(Digits) \cup Range(UpperAlpha) \cup Range(LowerAlpha) \cup {"_"}

\* line 49: re.search(r'\n[a-d]\.\s+\w+\s+[b-d]\.', text_content, re.IGNORECASE)
DetectPre2018(text) ==
    \E p \in 0..(Len(text) - 1) :
        /\ CharAt(text, p) = "\n"
        /\ SemMarkerAt(text, p + 1)
        /\ p + 3 < Len(text)
        /\ CharAt(text, p + 3) \in Whitespace
        /\ LET w == SkipSpace(text, p + 3)
               x == w + FirstNotIn(SliceFrom(text, w), WordChars)
               r == SkipSpace(text, x)
           IN  /\ x > w
               /\ r > x
               /\ r + 1 < Len(text)
               /\ CharAt(text, r) \in {"b", "c", "d", "B", "C", "D"}
               /\ CharAt(text, r + 1) = "."

\* the start of a match of option_pattern (line 181) at index p of s:
\* ([a-d])\.\s+ and one character at least for (.+?)
SemOptionStart(s, p) ==
    /\ SemMarkerAt(s, p)
    /\ p + 3 < Len(s)
    /\ CharAt(s, p + 2) \in Whitespace

\* the lookahead (?=\s+[a-d]\.\s+|$) at index e of s, s holding no newline
SemLookahead(s, e) ==
    \/ e = Len(s)
    \/ /\ CharAt(s, e) \in Whitespace
       /\ LET r == SkipSpace(s, e)
          IN  /\ SemMarkerAt(s, r)
              /\ r + 2 < Len(s)
              /\ CharAt(s, r + 2) \in Whitespace

\* lines 181-185: re.findall(option_pattern, combined_options, re.IGNORECASE)
\* from index `from` on, each match put in options under letter.upper()
RECURSIVE SemFindOptions(_, _, _)
SemFindOptions(s, from, options) ==
    IF ~\E p \in from..(Len(s) - 1) : SemOptionStart(s, p) THEN options
    ELSE LET p == CHOOSE p \in from..(Len(s) - 1) :
                      /\ SemOptionStart(s, p)
                      /\ \A q \in from..(p - 1) : ~SemOptionStart(s, q)
             w == SkipSpace(s, p + 2)
             \* \s+ gives one character back when nothing follows it
             t == IF w < Len(s) THEN w ELSE Len(s) - 1
             e == CHOOSE e \in (t + 1)..Len(s) :
                      /\ SemLookahead(s, e)
                      /\ \A m \in (t + 1)..(e - 1) : ~SemLookahead(s, m)
         IN  SemFindOptions(s, e,
                 MapPut(options, upper_char(CharAt(s, p)), strip(Slice(s, t, e))))

\* semantic_parser.parse_answer_key, lines 12-34
semantic_parse_answer_key(content) ==
    IF ~content.exists THEN EmptyMap ELSE V2Answers(content.pairs, EmptyMap)

(***************************************************************************)
(* semantic_parser.process_test_file                                       *)
(*                                                                         *)
(* The test file is a sequence of at most MaxSemChunks chunks of lines.    *)
(***************************************************************************)
MaxSemChunks == 3

SemOpen == <<"1. Who", "A. old Rome">>
SemRest == <<"B. old Athens", "C. old Sparta", "D. Corinth">>
SemFull == <<"A. old Rome">> \o SemRest
SemLower == <<"a. old Rome", "b. old Athens", "c. old Sparta", "d. Corinth">>
SemSingle == <<"A. Rome", "B. Athens", "C. Sparta", "D. Corinth">>
SemPacked == <<"a. Rome b. Athens c. Sparta d. Corinth">>
SemBare == <<"41.">>
SemInstr == <<"Choose the best answer.">>

SemChunks ==
    {<<"">>, <<"Mythology">>, SemInstr, SemBare, <<"2. Why">>, SemOpen, SemRest,
     SemFull, SemLower, SemSingle, SemPacked, <<"of them all">>}

\* the text of a file that holds the given lines
RECURSIVE SemText(_)
SemText(ls) == IF ls = <<>> THEN "" ELSE Head(ls) \o "\n" \o SemText(Tail(ls))

SemFiles ==
    {SemText(Flatten(cs)) : cs \in UNION {[1..n -> SemChunks] : n \in 0..MaxSemChunks}}

SemKeyFiles == {NoFile, KeyFile(<<<<1, "b">>, <<41, "C">>>>)}

InitSemantic ==
    /\ is_pre_2018 = FALSE
    /\ lines = <<>>
    /\ key_content = NoFile
    /\ answer_key = EmptyMap
    /\ questions = <<>>
    /\ current_instruction = DefaultInstruction
    /\ i = 1
    /\ pc = "idle"
    /\ missing_keys = <<>>
    /\ CwaIdle
    /\ SimpleIdle
    /\ FixedIdle
    /\ ToolsIdle
    /\ sem_pc = "start"
    /\ sem_text_content \in SemFiles
    /\ sem_key_content \in SemKeyFiles
    /\ sem_answer_key = EmptyMap
    /\ sem_lines = <<>>
    /\ sem_is_pre_2018 = FALSE
    /\ sem_i = 1
    /\ sem_questions = <<>>
    /\ sem_current_instruction = SemanticDefault

semInputs == <<sem_text_content, sem_key_content, sem_answer_key, sem_lines,
               sem_is_pre_2018>>

\* lines 346-350 and 42-51
SemStart ==
    /\ sem_pc = "start"
    /\ sem_answer_key' = semantic_parse_answer_key(sem_key_content)
    /\ sem_lines' = split_newline(strip(sem_text_content))
    /\ sem_questions' = <<>>
    /\ sem_current_instruction' = SemanticDefault
    /\ sem_is_pre_2018' = DetectPre2018(sem_text_content)
    /\ sem_i' = 1
    /\ sem_pc' = "loop"
    /\ UNCHANGED <<sem_text_content, sem_key_content>>
    /\ UNCHANGED notSemanticVars

\* the stripped lines a file of SemFiles can hold
SemLineSet == UNION {Range(c) : c \in SemChunks}

SemClasses == [line \in SemLineSet |-> SemClass(line)]

\* lines[j].strip(), j counted from 1
SemLine(j) == strip(sem_lines[j])

SemIs(j) == SemClasses[SemLine(j)]

\* the main loop is at a line
SemAt ==
    /\ sem_pc = "loop"
    /\ sem_i <= Len(sem_lines)

\* lines 56-58
SemSkipBlank ==
    /\ SemAt
    /\ SemIs(sem_i).blank
    /\ sem_i' = sem_i + 1
    /\ UNCHANGED <<semInputs, sem_questions, sem_current_instruction, sem_pc>>
    /\ UNCHANGED notSemanticVars

\* lines 83-95: [j, instruction_parts] when the loop ends
RECURSIVE SemInstructionParts(_, _)
SemInstructionParts(j, parts) ==
    IF j > Len(sem_lines) THEN [j |-> j, parts |-> parts]
    ELSE LET c == SemIs(j)
         IN  IF c.blank \/ c.number THEN [j |-> j, parts |-> parts]
             ELSE IF c.header THEN [j |-> j + 1, parts |-> parts]
             ELSE IF c.indicator THEN [j |-> j, parts |-> parts]
             ELSE SemInstructionParts(j + 1, Append(parts, SemLine(j)))

\* lines 98-101, 219-221 and 275-277
SemNewInstruction(parts, current) ==
    LET new_instruction == strip(join(parts))
    IN  IF Len(new_instruction) > 10 THEN new_instruction ELSE current

\* lines 62-103
SemInstruction ==
    /\ SemAt
    /\ ~SemIs(sem_i).blank
    /\ ~SemIs(sem_i).number
    /\ SemIs(sem_i).indicator
    /\ LET r == SemInstructionParts(sem_i + 1, <<SemLine(sem_i)>>)
       IN  /\ sem_current_instruction' = SemNewInstruction(r.parts, sem_current_instruction)
           /\ sem_i' = r.j
    /\ UNCHANGED <<semInputs, sem_questions, sem_pc>>
    /\ UNCHANGED notSemanticVars

\* lines 116-136: [j, question_lines] when the loop ends
RECURSIVE SemQuestionLines(_, _)
SemQuestionLines(j, question_lines) ==
    IF j > Len(sem_lines) THEN [j |-> j, lines |-> question_lines]
    ELSE LET c == SemIs(j)
         IN  IF c.blank THEN SemQuestionLines(j + 1, question_lines)
             ELSE IF c.any_option \/ c.number THEN [j |-> j, lines |-> question_lines]
             ELSE IF c.header THEN SemQuestionLines(j + 1, question_lines)
             ELSE SemQuestionLines(j + 1, Append(question_lines, SemLine(j)))

\* lines 147-177: [j, option_lines] when the loop ends; options is empty
\* all along the loop
RECURSIVE SemPreOptionLines(_, _)
SemPreOptionLines(j, option_lines) ==
    IF j > Len(sem_lines) THEN [j |-> j, lines |-> option_lines]
    ELSE LET c == SemIs(j)
         IN  IF c.blank THEN SemPreOptionLines(j + 1, option_lines)
             ELSE IF c.number \/ c.header \/ c.indicator \/ ~c.any_option
             THEN [j |-> j, lines |-> option_lines]
             ELSE SemPreOptionLines(j + 1, Append(option_lines, SemLine(j)))

\* lines 235-256: [k, option_lines] when the loop ends
RECURSIVE SemOptionLines(_, _)
SemOptionLines(k, option_lines) ==
    IF k > Len(sem_lines) THEN [k |-> k, lines |-> option_lines]
    ELSE LET c == SemIs(k)
         IN  IF c.blank THEN SemOptionLines(k + 1, option_lines)
             ELSE IF c.indicator \/ c.upper_option \/ c.number \/ c.header
             THEN [k |-> k, lines |-> option_lines]
             ELSE SemOptionLines(k + 1, Append(option_lines, SemLine(k)))

\* lines 266-274: [k, inst_lines] when the loop ends
RECURSIVE SemInstLines(_, _)
SemInstLines(k, inst_lines) ==
    IF k > Len(sem_lines) THEN [k |-> k, lines |-> inst_lines]
    ELSE LET c == SemIs(k)
         IN  IF c.blank \/ c.number THEN [k |-> k, lines |-> inst_lines]
             ELSE IF c.header THEN [k |-> k + 1, lines |-> inst_lines]
             ELSE SemInstLines(k + 1, Append(inst_lines, SemLine(k)))

\* lines 189-279: [j, options, current_instruction] when the loop ends.
\* The branch of lines 205-223 asks for four options inside a loop that
\* runs with fewer than four, and is never taken.
RECURSIVE SemPostOptions(_, _, _)
SemPostOptions(j, options, instruction) ==
    LET out == [j |-> j, options |-> options, instruction |-> instruction]
    IN  IF j > Len(sem_lines) \/ Cardinality(DOMAIN options) >= 4 THEN out
        ELSE LET c == SemIs(j)
             IN  IF c.blank THEN SemPostOptions(j + 1, options, instruction)
                 ELSE IF c.option.ok
                 THEN LET r == SemOptionLines(j + 1, <<c.option.text>>)
                      IN  SemPostOptions(r.k,
                              MapPut(options, c.option.letter, strip(join(r.lines))),
                              instruction)
                 ELSE IF c.indicator
                 THEN LET r == SemInstLines(j + 1, <<SemLine(j)>>)
                      IN  [j |-> r.k, options |-> options,
                           instruction |-> SemNewInstruction(r.lines, instruction)]
                 ELSE out

\* line 289 without the sentinel
raw_question_body(question_body, question_num) == question_body

\* line 289
final_question_body(question_body, question_num) ==
    IF question_body # "" THEN question_body
    ELSE "Question " \o ToString(question_num)

\* lines 283-297
SemAppend(records, question_num, question_body, options, instruction) ==
    IF /\ Cardinality(DOMAIN options) = 4
       /\ \A key \in UpperLetters : key \in DOMAIN options /\ strip(options[key]) # ""
    THEN Append(records,
                [question_index |-> question_num,
                 question_body |-> final_question_body(question_body, question_num),
                 question_options |-> options,
                 question_key |-> IF question_num \in DOMAIN sem_answer_key
                                  THEN sem_answer_key[question_num]
                                  ELSE "UNKNOWN",
                 question_instruction |-> instruction])
    ELSE records

\* the main loop is at a question-start line
SemAtQuestion ==
    /\ SemAt
    /\ ~SemIs(sem_i).blank
    /\ SemIs(sem_i).question.ok

\* lines 105-185 and 281-299
SemQuestionPre ==
    /\ SemAtQuestion
    /\ sem_is_pre_2018
    /\ LET m == SemIs(sem_i).question
           q == SemQuestionLines(sem_i + 1, <<m.text>>)
           question_body == strip(join(q.lines))
           o == SemPreOptionLines(q.j, <<>>)
           options == SemFindOptions(join(o.lines), 0, EmptyMap)
       IN  /\ sem_questions' = SemAppend(sem_questions, m.num, question_body, options,
                                         sem_current_instruction)
           /\ sem_i' = o.j
    /\ UNCHANGED <<semInputs, sem_current_instruction, sem_pc>>
    /\ UNCHANGED notSemanticVars

\* lines 105-141 and 187-299
SemQuestionPost ==
    /\ SemAtQuestion
    /\ ~sem_is_pre_2018
    /\ LET m == SemIs(sem_i).question
           q == SemQuestionLines(sem_i + 1, <<m.text>>)
           question_body == strip(join(q.lines))
           o == SemPostOptions(q.j, EmptyMap, sem_current_instruction)
       IN  /\ sem_questions' = SemAppend(sem_questions, m.num, question_body, o.options,
                                         o.instruction)
           /\ sem_current_instruction' = o.instruction
           /\ sem_i' = o.j
    /\ UNCHANGED <<semInputs, sem_pc>>
    /\ UNCHANGED notSemanticVars

\* lines 300-301
SemSkipLine ==
    /\ SemAt
    /\ ~SemIs(sem_i).blank
    /\ ~SemIs(sem_i).number
    /\ ~SemIs(sem_i).indicator
    /\ sem_i' = sem_i + 1
    /\ UNCHANGED <<semInputs, sem_questions, sem_current_instruction, sem_pc>>
    /\ UNCHANGED notSemanticVars

\* lines 52 and 303
SemFinish ==
    /\ sem_pc = "loop"
    /\ sem_i > Len(sem_lines)
    /\ sem_pc' = "done"
    /\ UNCHANGED <<semInputs, sem_i, sem_questions, sem_current_instruction>>
    /\ UNCHANGED notSemanticVars

NextSemantic ==
    \/ SemStart
    \/ SemSkipBlank
    \/ SemInstruction
    \/ SemQuestionPre
    \/ SemQuestionPost
    \/ SemSkipLine
    \/ SemFinish

SpecSemantic == InitSemantic /\ [][NextSemantic]_vars

(***************************************************************************)
(* Claims about semantic_parser.semantic_parse_test                        *)
(***************************************************************************)
SemDone == sem_pc = "done"

\* C18: an instruction-keyword line that comes after option A of a question
\* was opened and before its option D was read is continuation text of the
\* open option: the record is still emitted, and the current instruction
\* stays what it was.
C18_InstructionInsideOptionSpan ==
    (SemDone /\ sem_text_content = SemText(SemOpen \o SemInstr \o SemRest)) =>
        /\ Len(sem_questions) = 1
        /\ sem_questions[1].question_index = 1
        /\ sem_questions[1].question_options["A"] = "old Rome " \o SemInstr[1]
        /\ sem_questions[1].question_instruction = SemanticDefault
        /\ sem_current_instruction = SemanticDefault

\* the line holds one option of the given letter, in a case the format reads
OneOptionLine(line, letter, is_pre) ==
    /\ Len(line) >= 4
    /\ CharAt(line, 0) \in (IF is_pre THEN {letter, lower_char(letter)} ELSE {letter})
    /\ CharAt(line, 1) = "."
    /\ CharAt(line, 2) = " "

\* line j is a question start without body text
BareQuestionAt(j) ==
    /\ SemIs(j).question.ok
    /\ SemIs(j).question.text = ""

\* line j is followed directly by four valid option lines, or in the
\* pre-2018 format by the line that packs the four options
FourOptionsAfter(j) ==
    \/ /\ j + 4 <= Len(sem_lines)
       /\ \A n \in 1..4 :
            OneOptionLine(SemLine(j + n), <<"A", "B", "C", "D">>[n], sem_is_pre_2018)
    \/ /\ sem_is_pre_2018
       /\ j + 1 <= Len(sem_lines)
       /\ SemLine(j + 1) = SemPacked[1]

C20_UniquePositiveIndex ==
    \A a, b \in DOMAIN questions :
        /\ questions[a].question_index > 0
        /\ (a # b) => (questions[a].question_index # questions[b].question_index)

(***************************************************************************)
(* Claim about repeated option letters in simple_parser_v2.parse_test_file *)
(***************************************************************************)
\* C21: an option line whose letter is not the next one of A, B, C, D is
\* continuation text of the option opened before it: it neither opens nor
\* overwrites an option and does not count toward the four options.
C21_RepeatedLetterIsContinuation ==
    (pc = "done" /\ ~is_pre_2018 /\ lines = <<LQ1, LA, LA, LB, LC, LD>>) =>
        \E q \in Records :
            /\ q.question_index = 1
            /\ q.question_options = [A |-> <<"Rome", "A.", "Rome">>, B |-> <<"Athens">>,
                                     C |-> <<"Sparta">>, D |-> <<"Corinth">>]

(***************************************************************************)
(* Termination of simple_parser_v2.parse_test_file                         *)
(*                                                                         *)
(* The parser is run on every file of at most MaxTermChunks chunks and     *)
(* keeps taking steps for as long as it has not returned: weak fairness of *)
(* Next, whose enabledness is written as pc # "done" since one branch of   *)
(* the loop of lines 119-282 applies at every line.                        *)
(***************************************************************************)
MaxTermChunks == 2

TermFilesOf(chunks) ==
    {Flatten(cs) : cs \in UNION {[1..n -> chunks] : n \in 0..MaxTermChunks}}

InitTerm ==
    /\ is_pre_2018 \in BOOLEAN
    /\ lines \in (IF is_pre_2018 THEN TermFilesOf(PreChunks) ELSE TermFilesOf(PostChunks))
    /\ key_content \in KeyFiles
    /\ answer_key = EmptyMap
    /\ questions = <<>>
    /\ current_instruction = DefaultInstruction
    /\ i = 1
    /\ pc = "start"
    /\ missing_keys = <<>>
    /\ CwaIdle
    /\ OthersIdle

TermFairness == []<>(pc = "done") \/ []<><<Next>>_vars

SpecTerm == InitTerm /\ [][Next]_vars /\ TermFairness

\* C30: parse_test_file terminates on every input in either era: each
\* iteration of the main loop strictly increases the line index i, which
\* never passes the end of the file by more than one, and the parser
\* returns in the end.
C30_Terminates ==
    /\ [][(pc = "loop" /\ pc' = "loop") => (i' > i /\ i' <= NLines + 1)]_vars
    /\ <>(pc = "done")

C30_Witness ==
    /\ pc = "done"
    /\ i = NLines + 1
    /\ NLines >= 6
    /\ Len(questions) >= 1
    /\ current_instruction # DefaultInstruction

(***************************************************************************)
(* Claim about the order of the states of simple_parser.parse_test_file    *)
(***************************************************************************)
\* the states that may follow each state
StateOrder ==
    [STATE_INSTRUCTION |-> {"STATE_QUESTION"},
     STATE_QUESTION |-> {"STATE_OPTION_A"},
     STATE_OPTION_A |-> {"STATE_OPTION_B"},
     STATE_OPTION_B |-> {"STATE_OPTION_C"},
     STATE_OPTION_C |-> {"STATE_OPTION_D"},
     STATE_OPTION_D |-> {"STATE_QUESTION", "STATE_INSTRUCTION"}]

\* C29: the state only advances along INSTRUCTION -> QUESTION -> OPTION_A ->
\* OPTION_B -> OPTION_C -> OPTION_D -> (QUESTION or INSTRUCTION); a record is
\* appended only on leaving STATE_OPTION_D, with exactly the option keys A, B,
\* C, D, and each key is set once for a question: the options are emptied
\* or gain one key that they did not hold.
C29_StateOrder ==
    [][/\ (sp_state' # sp_state) => (sp_state' \in StateOrder[sp_state])
       /\ (Len(sp_questions') # Len(sp_questions)) =>
             /\ sp_state = "STATE_OPTION_D"
             /\ sp_state' # "STATE_OPTION_D"
             /\ Len(sp_questions') = Len(sp_questions) + 1
             /\ DOMAIN sp_current_options = {"A", "B", "C"}
             /\ DOMAIN sp_questions'[Len(sp_questions')].options = UpperLetters
             /\ \A l \in {"A", "B", "C"} :
                   sp_questions'[Len(sp_questions')].options[l] = sp_current_options[l]
       /\ (sp_current_options' # sp_current_options) =>
             \/ sp_current_options' = EmptyMap
             \/ \E l \in UpperLetters \ DOMAIN sp_current_options :
                   /\ DOMAIN sp_current_options' = DOMAIN sp_current_options \cup {l}
                   /\ \A m \in DOMAIN sp_current_options :
                         sp_current_options'[m] = sp_current_options[m]]_vars

C29_Witness ==
    /\ SimpleDone
    /\ sp_state = "STATE_INSTRUCTION"
    /\ Len(sp_questions) = 2
    /\ \A k \in 1..2 : DOMAIN sp_questions[k].options = UpperLetters

(***************************************************************************)
(* simple_parser_v2.main                                                   *)
(*                                                                         *)
(* A test file is named by the rank of its path among the paths under      *)
(* base_dir, so that sorted() orders the files by that number.  What       *)
(* parse_test_file returns or raises for a file, and whether the write of  *)
(* parsed_questions.json raises, is chosen at each pass of the loop.       *)
(***************************************************************************)
MaxFiles == 3

\* the lists without repetition of files among 1..MaxFiles
FileLists ==
    {fs \in UNION {[1..n -> 1..MaxFiles] : n \in 0..MaxFiles} :
        \A a, b \in DOMAIN fs : a # b => fs[a] # fs[b]}

\* sorted(test_files)
RECURSIVE sorted(_)
sorted(fs) ==
    IF fs = <<>> THEN <<>>
    ELSE LET least == CHOOSE x \in Range(fs) : \A y \in Range(fs) : x <= y
         IN  <<least>> \o sorted(SelectSeq(fs, LAMBDA x : x # least))

InitMain ==
    /\ ParsersIdle
    /\ ConsIdle
    /\ CleanIdle
    /\ PdfIdle
    /\ main_pc = "start"
    /\ main_base_exists \in BOOLEAN
    /\ test_files \in FileLists
    /\ main_idx = 1
    /\ main_attempted = <<>>
    /\ main_raised = {}
    /\ main_saved = {}
    /\ success_count = 0
    /\ error_count = 0

mainInputs == <<main_base_exists, test_files>>

\* lines 296-300
MainNoDirectory ==
    /\ main_pc = "start"
    /\ ~main_base_exists
    /\ main_pc' = "done"
    /\ UNCHANGED <<mainInputs, main_idx, main_attempted, main_raised, main_saved,
                   success_count, error_count, notMainVars>>

\* lines 302-307
MainStart ==
    /\ main_pc = "start"
    /\ main_base_exists
    /\ success_count' = 0
    /\ error_count' = 0
    /\ main_idx' = 1
    /\ main_pc' = "loop"
    /\ UNCHANGED <<mainInputs, main_attempted, main_raised, main_saved, notMainVars>>

\* the loop of line 310 is at a file
MainAtFile ==
    /\ main_pc = "loop"
    /\ main_idx <= Len(test_files)

\* the file of this pass
test_file == sorted(test_files)[main_idx]

\* lines 312-322: parse_test_file returns questions and they are saved
MainFileSaved ==
    /\ MainAtFile
    /\ main_attempted' = Append(main_attempted, test_file)
    /\ main_saved' = main_saved \cup {test_file}
    /\ success_count' = success_count + 1
    /\ main_idx' = main_idx + 1
    /\ UNCHANGED <<mainInputs, main_raised, error_count, main_pc, notMainVars>>

\* lines 312-314 and 323-325: parse_test_file returns an empty list
MainNoQuestions ==
    /\ MainAtFile
    /\ main_attempted' = Append(main_attempted, test_file)
    /\ error_count' = error_count + 1
    /\ main_idx' = main_idx + 1
    /\ UNCHANGED <<mainInputs, main_raised, main_saved, success_count, main_pc,
                   notMainVars>>

\* lines 312 and 327-331 with the exception let through
MainParseAborts ==
    /\ MainAtFile
    /\ main_attempted' = Append(main_attempted, test_file)
    /\ main_raised' = main_raised \cup {[file |-> test_file, raised_by |-> "parse_test_file"]}
    /\ main_pc' = "done"
    /\ UNCHANGED <<mainInputs, main_idx, main_saved, success_count, error_count,
                   notMainVars>>

\* lines 312 and 327-331: parse_test_file raises
MainParseRaises ==
    /\ MainAtFile
    /\ main_attempted' = Append(main_attempted, test_file)
    /\ main_raised' = main_raised \cup {[file |-> test_file, raised_by |-> "parse_test_file"]}
    /\ error_count' = error_count + 1
    /\ main_idx' = main_idx + 1
    /\ UNCHANGED <<mainInputs, main_saved, success_count, main_pc, notMainVars>>

\* lines 312-319 and 327-331: open() or json.dump raises, before line 322
MainSaveRaises ==
    /\ MainAtFile
    /\ main_attempted' = Append(main_attempted, test_file)
    /\ main_raised' = main_raised \cup {[file |-> test_file, raised_by |-> "json.dump"]}
    /\ error_count' = error_count + 1
    /\ main_idx' = main_idx + 1
    /\ UNCHANGED <<mainInputs, main_saved, success_count, main_pc, notMainVars>>

\* lines 333-337
MainFinish ==
    /\ main_pc = "loop"
    /\ main_idx > Len(test_files)
    /\ main_pc' = "done"
    /\ UNCHANGED <<mainInputs, main_idx, main_attempted, main_raised, main_saved,
                   success_count, error_count, notMainVars>>

NextMain ==
    \/ MainNoDirectory
    \/ MainStart
    \/ MainFileSaved
    \/ MainNoQuestions
    \/ MainParseRaises
    \/ MainSaveRaises
    \/ MainFinish

SpecMain == InitMain /\ [][NextMain]_vars

\* C25: an exception raised while one file is parsed or saved does not end
\* the batch: the files attempted so far are the first files of
\* sorted(test_files), each once, success_count + error_count counts them,
\* and when main returns after the loop every file found was attempted and
\* success_count + error_count is the number of test files.
C25_BatchSurvivesErrors ==
    (main_pc \in {"loop", "done"} /\ main_base_exists) =>
        /\ Len(main_attempted) <= Len(test_files)
        /\ main_attempted = SubSeq(sorted(test_files), 1, Len(main_attempted))
        /\ success_count + error_count = Len(main_attempted)
        /\ (main_pc = "done") =>
              /\ main_attempted = sorted(test_files)
              /\ success_count + error_count = Len(test_files)

C25_Witness ==
    /\ main_pc = "done"
    /\ Len(test_files) = 3
    /\ test_files # sorted(test_files)
    /\ \E r \in main_raised : \E g \in main_saved : r.file < g
    /\ success_count = 1
    /\ error_count = 2

(***************************************************************************)
(* consolidate_with_answers.consolidate_jcl_data, for one subject          *)
(*                                                                         *)
(* The years are the first MaxYears of state_2017, state_2018, ...; what a *)
(* year holds for the subject is one of ConsFiles.  A question is a        *)
(* dictionary that holds the key question_number or not.                   *)
(***************************************************************************)
MaxYears == 2

\* int(year.split('_')[1]) of the year at index y
year_num(y) == 2016 + y

\* a question of questions.json with its number
Numbered(n) == [question |-> "text", question_number |-> n]

\* a question of questions.json without the key question_number
Unnumbered == [question |-> "text"]

ConsQuestionLists ==
    {<<>>, <<Numbered(1)>>, <<Numbered(1), Numbered(2)>>, <<Numbered(1), Unnumbered>>,
     <<Unnumbered>>}

ConsKeyFiles == {NoFile, KeyFile(<<<<1, "A">>>>)}

\* no questions.json, one that json.load rejects, one without 'questions',
\* or one with a list of questions and the key file beside it
ConsFiles ==
    {[kind |-> k, questions |-> <<>>, key |-> NoFile] :
        k \in {"missing", "unreadable", "no_questions"}}
    \cup {[kind |-> "questions", questions |-> qs, key |-> key] :
            qs \in ConsQuestionLists, key \in ConsKeyFiles}

\* lines 59-67
NewStats ==
    [total_questions |-> 0, years_processed |-> 0, files_processed |-> 0,
     pre_2018_questions |-> 0, post_2018_questions |-> 0, questions_with_answers |-> 0]

NoDocument == [exists |-> FALSE]

InitConsolidate ==
    /\ ParsersIdle
    /\ MainIdle
    /\ CleanIdle
    /\ PdfIdle
    /\ cj_files \in [1..MaxYears -> ConsFiles]
    /\ cj_year = 1
    /\ cj_data = <<>>
    /\ cj_answer_key = EmptyMap
    /\ cj_pos = 1
    /\ all_questions = <<>>
    /\ cj_stats = NewStats
    /\ cj_document = NoDocument
    /\ cj_pc = "years"

\* the loop of line 69 is at a year
ConsAtYear ==
    /\ cj_pc = "years"
    /\ cj_year <= MaxYears

\* lines 70-94: no questions.json for the subject in the year
ConsSkipYear ==
    /\ ConsAtYear
    /\ cj_files[cj_year].kind = "missing"
    /\ cj_year' = cj_year + 1
    /\ UNCHANGED <<cj_files, cj_data, cj_answer_key, cj_pos, all_questions, cj_stats,
                   cj_document, cj_pc, notConsVars>>

\* lines 95-97 and 146-148: json.load raises
ConsLoadRaises ==
    /\ ConsAtYear
    /\ cj_files[cj_year].kind = "unreadable"
    /\ cj_year' = cj_year + 1
    /\ UNCHANGED <<cj_files, cj_data, cj_answer_key, cj_pos, all_questions, cj_stats,
                   cj_document, cj_pc, notConsVars>>

\* lines 95-99: the document has no 'questions'
ConsNoQuestions ==
    /\ ConsAtYear
    /\ cj_files[cj_year].kind = "no_questions"
    /\ cj_year' = cj_year + 1
    /\ UNCHANGED <<cj_files, cj_data, cj_answer_key, cj_pos, all_questions, cj_stats,
                   cj_document, cj_pc, notConsVars>>

\* lines 95-106
ConsLoad ==
    /\ ConsAtYear
    /\ cj_files[cj_year].kind = "questions"
    /\ cj_data' = cj_files[cj_year].questions
    /\ cj_answer_key' = cwa_parse_answer_key(cj_files[cj_year].key)
    /\ cj_pos' = 1
    /\ cj_pc' = "questions"
    /\ UNCHANGED <<cj_files, cj_year, all_questions, cj_stats, cj_document, notConsVars>>

\* the loop of line 109 is at a question
ConsAtQuestion ==
    /\ cj_pc = "questions"
    /\ cj_pos <= Len(cj_data)

\* lines 110-129 for a question that holds question_number
annotated(question, year, answers) ==
    LET is_pre_2018_year == year_num(year) < 2018
        found == question.question_number \in DOMAIN answers
    IN  [question |-> question.question,
         question_number |-> question.question_number,
         source_year |-> year_num(year),
         format_era |-> IF is_pre_2018_year THEN "pre_2018" ELSE "post_2018",
         original_question_number |-> question.question_number,
         correct_answer |-> IF found THEN answers[question.question_number]
                            ELSE NoneValue,
         has_section |-> FALSE]

\* lines 109-129, one pass of the loop
ConsAddMetadata ==
    /\ ConsAtQuestion
    /\ "question_number" \in DOMAIN cj_data[cj_pos]
    /\ cj_data' = [cj_data EXCEPT ![cj_pos] = annotated(@, cj_year, cj_answer_key)]
    /\ cj_stats' =
          [cj_stats EXCEPT !.questions_with_answers =
              IF cj_data[cj_pos].question_number \in DOMAIN cj_answer_key
              THEN @ + 1 ELSE @]
    /\ cj_pos' = cj_pos + 1
    /\ UNCHANGED <<cj_files, cj_year, cj_answer_key, all_questions, cj_document, cj_pc,
                   notConsVars>>

\* lines 110-118 and 146-148: question['question_number'] raises KeyError
ConsQuestionRaises ==
    /\ ConsAtQuestion
    /\ "question_number" \notin DOMAIN cj_data[cj_pos]
    /\ cj_year' = cj_year + 1
    /\ cj_pc' = "years"
    /\ UNCHANGED <<cj_files, cj_data, cj_answer_key, cj_pos, all_questions, cj_stats,
                   cj_document, notConsVars>>

\* lines 131-144
ConsExtend ==
    /\ cj_pc = "questions"
    /\ cj_pos > Len(cj_data)
    /\ all_questions' = all_questions \o cj_data
    /\ LET question_count == Len(cj_data)
       IN  cj_stats' =
              [cj_stats EXCEPT
                  !.total_questions = @ + question_count,
                  !.files_processed = @ + 1,
                  !.years_processed = @ + 1,
                  !.pre_2018_questions =
                      IF year_num(cj_year) < 2018 THEN @ + question_count ELSE @,
                  !.post_2018_questions =
                      IF year_num(cj_year) < 2018 THEN @ ELSE @ + question_count]
    /\ cj_year' = cj_year + 1
    /\ cj_pc' = "years"
    /\ UNCHANGED <<cj_files, cj_data, cj_answer_key, cj_pos, cj_document, notConsVars>>

\* lines 150-169
ConsSave ==
    /\ cj_pc = "years"
    /\ cj_year > MaxYears
    /\ all_questions # <<>>
    /\ cj_document' = [exists |-> TRUE,
                       total_questions |-> Len(all_questions),
                       questions |-> all_questions,
                       metadata |-> cj_stats]
    /\ cj_pc' = "done"
    /\ UNCHANGED <<cj_files, cj_year, cj_data, cj_answer_key, cj_pos, all_questions,
                   cj_stats, notConsVars>>

\* lines 150-151 and 170-171
ConsNothingToSave ==
    /\ cj_pc = "years"
    /\ cj_year > MaxYears
    /\ all_questions = <<>>
    /\ cj_pc' = "done"
    /\ UNCHANGED <<cj_files, cj_year, cj_data, cj_answer_key, cj_pos, all_questions,
                   cj_stats, cj_document, notConsVars>>

NextConsolidate ==
    \/ ConsSkipYear
    \/ ConsLoadRaises
    \/ ConsNoQuestions
    \/ ConsLoad
    \/ ConsAddMetadata
    \/ ConsQuestionRaises
    \/ ConsExtend
    \/ ConsSave
    \/ ConsNothingToSave

SpecConsolidate == InitConsolidate /\ [][NextConsolidate]_vars

\* the entries of the document whose correct_answer is not null
Answered(document) ==
    {n \in DOMAIN document.questions : document.questions[n].correct_answer # NoneValue}

\* C26: in the consolidated document of a subject, metadata.total_questions
\* = len(questions) = pre_2018_questions + post_2018_questions, and
\* metadata.questions_with_answers is the number of entries of questions
\* whose correct_answer is not null.
C26_StatisticsConsistent ==
    cj_document.exists =>
        /\ cj_document.metadata.total_questions = Len(cj_document.questions)
        /\ Len(cj_document.questions) =
              cj_document.metadata.pre_2018_questions
              + cj_document.metadata.post_2018_questions
        /\ cj_document.metadata.questions_with_answers = Cardinality(Answered(cj_document))

(***************************************************************************)
(* The clean-up scripts: fix_instruction_punctuation.py,                   *)
(* clean_instruction_headers.py and remove_question_newlines.py            *)
(*                                                                         *)
(* A regular expression anchored at the start of the text is a sequence of *)
(* items, an item being one character of a set or a run of characters of a *)
(* set; in the expressions of these scripts neighbouring items have        *)
(* disjoint sets, so the greedy match is the only one.                     *)
(***************************************************************************)
\* one character of the set
One(set) == [set |-> set, many |-> FALSE, least |-> 1]

\* a run of at least `least` characters of the set
Many(set, least) == [set |-> set, many |-> TRUE, least |-> least]

\* the characters of word, each in either case as under re.IGNORECASE
Lit(word) == [k \in 1..Len(word) |->
                 One({lower_char(CharAt(word, k - 1)), upper_char(CharAt(word, k - 1))})]

NoMatch == -1

\* index of the end of the match of items at index p of s, NoMatch if none
RECURSIVE MatchItems(_, _, _)
MatchItems(s, p, items) ==
    IF items = <<>> THEN p
    ELSE LET item == Head(items)
             n == FirstNotIn(SliceFrom(s, p), item.set)
         IN  IF item.many
             THEN IF n >= item.least THEN MatchItems(s, p + n, Tail(items)) ELSE NoMatch
             ELSE IF n >= 1 THEN MatchItems(s, p + 1, Tail(items)) ELSE NoMatch

RomanDigits == {"I", "V", "X", "i", "v", "x"}

\* r'^For\s+\d+-\d+\s+'
for_range ==
    Lit("For") \o <<Many(Whitespace, 1), Many(Range(Digits), 1), One({"-"}),
                    Many(Range(Digits), 1), Many(Whitespace, 1)>>

\* r'^For\s+questions\s+\d+-\d+\s+'
for_questions ==
    Lit("For") \o <<Many(Whitespace, 1)>> \o Lit("questions")
    \o <<Many(Whitespace, 1), Many(Range(Digits), 1), One({"-"}),
         Many(Range(Digits), 1), Many(Whitespace, 1)>>

\* r'^For\s+questions\s+\d+-\d+\s+please\s+'
for_questions_please == for_questions \o Lit("please") \o <<Many(Whitespace, 1)>>

\* r'^[IVX]+[\.:]\s*'
roman_numeral == <<Many(RomanDigits, 1), One({".", ":"}), Many(Whitespace, 0)>>

\* r'^Part\s+[IVX]+[\.:]\s*'
part_roman ==
    Lit("Part") \o <<Many(Whitespace, 1), Many(RomanDigits, 1), One({".", ":"}),
                     Many(Whitespace, 0)>>

\* r'^Part\s+\d+[\.:]\s*'
part_number ==
    Lit("Part") \o <<Many(Whitespace, 1), Many(Range(Digits), 1), One({".", ":"}),
                     Many(Whitespace, 0)>>

\* r'^Part\s+\d+\)\s*'
part_paren ==
    Lit("Part") \o <<Many(Whitespace, 1), Many(Range(Digits), 1), One({")"}),
                     Many(Whitespace, 0)>>

\* clean_instruction_headers.py lines 115-125 and 132-140, in this order
heading_patterns ==
    <<for_range, for_questions, for_questions_please, roman_numeral, part_roman,
      part_number, part_paren>>

\* re.sub(pattern, '', s, flags=re.IGNORECASE).strip()
remove_heading(s, pattern) ==
    LET e == MatchItems(s, 0, pattern)
    IN  strip(IF e = NoMatch THEN s ELSE SliceFrom(s, e))

\* lines 115-125, the same as lines 132-140: the patterns from index k on;
\* no pattern matches the empty text
RECURSIVE remove_headings(_, _)
remove_headings(s, k) ==
    IF k > Len(heading_patterns) \/ s = "" THEN s
    ELSE remove_headings(remove_heading(s, heading_patterns[k]), k + 1)

max_iterations == 5

\* lines 129-145, with n passes left
RECURSIVE remove_stacked_headings(_, _)
remove_stacked_headings(s, n) ==
    IF n = 0 THEN s
    ELSE LET t == remove_headings(s, 1)
         IN  IF t = s THEN s ELSE remove_stacked_headings(t, n - 1)

\* lines 20-104
useless_headers ==
    <<"FJCL State Latin Forum ~ Derivatives 1 -",
     "FJCL State Latin Forum ~ Derivatives I -",
     "FJCL State Latin Forum ~ Derivatives II -",
     "FJCL State Latin Forum ~ Derivatives -",
     "FJCL State Latin Forum ~ Mythology -",
     "FJCL State Latin Forum ~ Vocabulary 1 -",
     "FJCL State Latin Forum ~ Vocabulary I -",
     "FJCL State Latin Forum ~ Vocabulary II -",
     "FJCL State Latin Forum ~ Vocabulary -",
     "FJCL State Latin Forum ~ History -",
     "FJCL State Latin Forum ~ Mottoes -",
     "FJCL State Latin Forum ~ Phrases -",
     "FJCL State Latin Forum ~ Abbreviations -",
     "FJCL State Latin Forum ~ Quotations -",
     "FJCL State Latin Forum ~ Classical Art -",
     "FJCL State Latin Forum ~ Classical Geography -",
     "FJCL State Latin Forum ~ History of the Empire -",
     "FJCL State Latin Forum ~ History of the Monarchy and Republic -",
     "FJCL State Latin Forum ~ History of the Monarchy & Republic -",
     "FJCL State Latin Forum ~ Mottoes, Abbreviations, and Quotations -",
     "FJCL State Latin Forum ~ Mottoes, Abbreviations, & Quotations -",
     "2015 FJCL State Latin Forum",
     "2014 FJCL State Latin Forum",
     "2013 FJCL State Latin Forum",
     "2012 FJCL State Latin Forum",
     "2011 FJCL State Latin Forum",
     "2010 FJCL State Latin Forum",
     "2009 FJCL State Latin Forum",
     "2019 FJCL State Forum",
     "2018 FJCL State Forum",
     "2017 FJCL State Forum",
     "2016 FJCL State Forum",
     "2015 FJCL State Forum",
     "2014 FJCL State Forum",
     "2013 FJCL State Forum",
     "2012 FJCL State Forum",
     "2011 FJCL State Forum",
     "2010 FJCL State Forum",
     "2009 FJCL State Forum",
     "FJCL State Latin Forum",
     "FJCL State Forum",
     "Derivatives",
     "Mythology",
     "Vocabulary",
     "History",
     "Classical Art",
     "Classical Geography",
     "Mottoes",
     "Abbreviations",
     "Quotations",
     "Phrases",
     "Derivatives I",
     "Derivatives II",
     "Vocabulary I",
     "Vocabulary II",
     "History of the Empire",
     "History of the Monarchy and Republic",
     "History of the Monarchy & Republic",
     "Mottoes, Abbreviations, and Quotations",
     "Mottoes, Abbreviations, & Quotations",
     "Phrases, Mottoes, Abbreviations, and Quotations",
     "I. Mottoes",
     "II. Phrases",
     "III. Abbreviations",
     "IV. Quotations",
     "Part I: Phrases",
     "Part II: Mottoes",
     "Part III: Abbreviations",
     "Part IV: Quotations",
     "N.B. There are no macra on this test.">>

\* lines 107-112: the headers from index k on; the loop changes the text at
\* the headers that the text begins with, and the next such header is at m
RECURSIVE remove_useless_headers(_, _)
remove_useless_headers(s, k) ==
    LET matching == {m \in k..Len(useless_headers) : lower_startswith(s, useless_headers[m])}
    IN  IF matching = {} THEN s
        ELSE LET m == CHOOSE m \in matching : \A n \in matching : m <= n
                 t == strip(SliceFrom(s, Len(useless_headers[m])))
             IN  remove_useless_headers(SliceFrom(t, FirstNotIn(t, {"\n"})), m + 1)

EndingPunctuation == {".", ":", "!", "?"}

\* re.sub(r'[\.:!?]+\s*$', '', s): the match is the last run of punctuation
\* when only whitespace follows it
remove_ending_punctuation(s) ==
    LET e == LenStripped(s)
    IN  IF e = 0 \/ CharAt(s, e - 1) \notin EndingPunctuation THEN s
        ELSE Slice(s, 0, CHOOSE p \in 0..(e - 1) :
                            /\ \A k \in p..(e - 1) : CharAt(s, k) \in EndingPunctuation
                            /\ p > 0 => CharAt(s, p - 1) \notin EndingPunctuation)

\* s.replace('\n', ' ')
RECURSIVE replace_newlines(_)
replace_newlines(s) ==
    IF s = "" THEN ""
    ELSE (IF CharAt(s, 0) = "\n" THEN " " ELSE CharAt(s, 0))
         \o replace_newlines(SliceFrom(s, 1))

\* re.sub(r'\s+', ' ', s)
RECURSIVE collapse_whitespace(_)
collapse_whitespace(s) ==
    IF s = "" THEN ""
    ELSE IF CharAt(s, 0) \in Whitespace THEN " " \o collapse_whitespace(lstrip(s))
    ELSE CharAt(s, 0) \o collapse_whitespace(SliceFrom(s, 1))

\* fix_instruction_punctuation.py lines 12-22
fix_instruction_punctuation(s) ==
    IF s = "" THEN s ELSE strip(remove_ending_punctuation(s)) \o ":"

\* clean_instruction_headers.py lines 147-154
punctuation_step(s) ==
    LET capitalized == IF s # "" THEN upper_char(CharAt(s, 0)) \o SliceFrom(s, 1) ELSE s
        t == strip(remove_ending_punctuation(capitalized))
    IN  IF t # "" THEN t \o ":" ELSE t

\* clean_instruction_headers.py lines 14-162
clean_instruction(s) ==
    IF s = "" THEN s
    ELSE LET without_headers == remove_useless_headers(s, 1)
             without_headings ==
                 remove_stacked_headings(remove_headings(without_headers, 1), max_iterations)
         IN  strip(collapse_whitespace(replace_newlines(punctuation_step(without_headings))))

\* remove_question_newlines.py lines 13-24 without the re.sub of line 22
clean_question_text_uncollapsed(s) ==
    IF s = "" THEN s ELSE strip(replace_newlines(s))

\* remove_question_newlines.py lines 13-24
clean_question_text(s) ==
    IF s = "" THEN s ELSE strip(collapse_whitespace(replace_newlines(s)))

MaxTokens == 3
MaxRuns == 2

InstructionTokens ==
    {"Part 1) ", "For 46-50 ", "Mythology ", "Vocabulary ", "I. ", "choose", ":", " ."}

QuestionTokens == {"Who", "is?", " ", "\n", "\t", " \n"}

\* the texts made of up to MaxTokens tokens
TextsOf(tokens) == {Concat(ts) : ts \in UNION {[1..n -> tokens] : n \in 0..MaxTokens}}

InitClean ==
    /\ ParsersIdle
    /\ MainIdle
    /\ ConsIdle
    /\ PdfIdle
    /\ \/ cl_instruction \in TextsOf(InstructionTokens) /\ cl_question = "Who?"
       \/ cl_instruction = "Choose:" /\ cl_question \in TextsOf(QuestionTokens)
    /\ clean_log = <<>>

\* a script may run
CleanMayRun == Len(clean_log) < MaxRuns

\* fix_instruction_punctuation.py lines 31-34, for one question
FixInstructionPunctuation ==
    /\ CleanMayRun
    /\ cl_instruction' = IF cl_instruction # "" THEN fix_instruction_punctuation(cl_instruction)
                      ELSE cl_instruction
    /\ clean_log' = Append(clean_log, [script |-> "fix_instruction_punctuation",
                                       before |-> cl_instruction, after |-> cl_instruction'])
    /\ UNCHANGED <<cl_question, notCleanVars>>

\* clean_instruction_headers.py lines 173-179, for one question
CleanInstructionHeaders ==
    /\ CleanMayRun
    /\ cl_instruction' = IF cl_instruction # "" THEN clean_instruction(cl_instruction)
                      ELSE cl_instruction
    /\ clean_log' = Append(clean_log, [script |-> "clean_instruction_headers",
                                       before |-> cl_instruction, after |-> cl_instruction'])
    /\ UNCHANGED <<cl_question, notCleanVars>>

\* remove_question_newlines.py lines 36-42, for one question
RemoveQuestionNewlines ==
    /\ CleanMayRun
    /\ cl_question' = IF cl_question # "" THEN clean_question_text(cl_question)
                        ELSE cl_question
    /\ clean_log' = Append(clean_log, [script |-> "remove_question_newlines",
                                       before |-> cl_question, after |-> cl_question'])
    /\ UNCHANGED <<cl_instruction, notCleanVars>>

NextClean ==
    \/ FixInstructionPunctuation
    \/ CleanInstructionHeaders
    \/ RemoveQuestionNewlines

SpecClean == InitClean /\ [][NextClean]_vars

\* the runs of a script on a field that was not empty
RunsOf(script) ==
    {k \in DOMAIN clean_log : clean_log[k].script = script /\ clean_log[k].before # ""}

\* s ends with a colon that no colon precedes, and with no whitespace
EndsWithOneColon(s) ==
    /\ Len(s) >= 1
    /\ CharAt(s, Len(s) - 1) = ":"
    /\ Len(s) >= 2 => CharAt(s, Len(s) - 2) \notin ({":"} \cup Whitespace)

\* C22: fix_instruction_punctuation maps a non-empty cl_instruction to a string
\* that ends with exactly one colon and is the input without its trailing
\* run of '.', '!', '?', ':' and without whitespace around it, followed by
\* that colon; the result of clean_instruction ends with exactly one colon
\* as well.
C22_EndsWithOneColon ==
    /\ \A k \in RunsOf("fix_instruction_punctuation") :
          /\ EndsWithOneColon(clean_log[k].after)
          /\ clean_log[k].after
                = strip(remove_ending_punctuation(clean_log[k].before)) \o ":"
    /\ \A k \in RunsOf("clean_instruction_headers") :
          EndsWithOneColon(clean_log[k].after)

\* C23: a second run of clean_instruction on its own result changes nothing.
C23_CleanIsIdempotent ==
    \A k \in RunsOf("clean_instruction_headers") :
        (k > 1 /\ clean_log[k - 1].script = "clean_instruction_headers") =>
            clean_log[k].after = clean_log[k].before

\* the non-whitespace characters of s, in order
RECURSIVE NonWhitespace(_)
NonWhitespace(s) ==
    IF s = "" THEN ""
    ELSE (IF CharAt(s, 0) \in Whitespace THEN "" ELSE CharAt(s, 0))
         \o NonWhitespace(SliceFrom(s, 1))

\* C24: clean_question_text returns a text without newline, without two
\* whitespace characters in a row and without whitespace at either end,
\* whose non-whitespace characters are those of the input in the same
\* order; a second run changes nothing.
C24_QuestionOnOneLine ==
    \A k \in RunsOf("remove_question_newlines") :
        LET after == clean_log[k].after
        IN  /\ \A p \in 0..(Len(after) - 1) :
                  /\ CharAt(after, p) # "\n"
                  /\ CharAt(after, p) \in Whitespace =>
                        /\ p > 0 /\ p < Len(after) - 1
                        /\ CharAt(after, p + 1) \notin Whitespace
            /\ NonWhitespace(after) = NonWhitespace(clean_log[k].before)
            /\ (k > 1 /\ clean_log[k - 1].script = "remove_question_newlines") =>
                  after = clean_log[k].before

C24_Witness ==
    /\ Len(clean_log) = 2
    /\ \A k \in 1..2 : clean_log[k].script = "remove_question_newlines"
    /\ clean_log[1].before = "Who \nis?"
    /\ clean_log[1].after = "Who is?"
    /\ cl_question = "Who is?"

\* s begins with a header that clean_instruction removes
BeginsWithHeader(s) ==
    \/ \E k \in DOMAIN useless_headers : lower_startswith(s, useless_headers[k])
    \/ \E k \in DOMAIN heading_patterns : MatchItems(s, 0, heading_patterns[k]) # NoMatch

\* C27: the result of clean_instruction does not begin with a listed header,
\* a For X-Y or For questions X-Y heading, a Roman numeral followed by '.'
\* or ':', or a Part heading, whatever headers the input began with.
C27_NoHeaderLeft ==
    \A k \in RunsOf("clean_instruction_headers") : ~BeginsWithHeader(clean_log[k].after)

(***************************************************************************)
(* improved_pdf_to_txt.ImprovedPDFToTextConverter                          *)
(*                                                                         *)
(* A re.sub is given by the index each match that starts at an index ends  *)
(* at (NoMatch where none starts) and by what replaces it; the matches are *)
(* taken from left to right without overlap.  The page texts hold no       *)
(* ligature, so lines 60-62 of clean_text leave them as they are.          *)
(***************************************************************************)
\* number of characters of s from index p on that are in set
Run(s, p, set) == IF p >= Len(s) THEN 0 ELSE FirstNotIn(SliceFrom(s, p), set)

\* number of characters of s from index p on that are not in set
RunNotIn(s, p, set) == IF p >= Len(s) THEN 0 ELSE FirstIn(SliceFrom(s, p), set)

\* the character of s at index p, "" past the end
Peek(s, p) == IF p >= 0 /\ p < Len(s) THEN CharAt(s, p) ELSE ""

\* re.sub on s from index `from` on: ends[p] is the end of the match that
\* starts at p or NoMatch, repl[p] its replacement
RECURSIVE Substitute(_, _, _, _)
Substitute(s, from, ends, repl) ==
    LET starts == {p \in from..(Len(s) - 1) : ends[p] # NoMatch}
    IN  IF starts = {} THEN SliceFrom(s, from)
        ELSE LET p == CHOOSE p \in starts : \A q \in starts : p <= q
             IN  Slice(s, from, p) \o repl[p] \o Substitute(s, ends[p], ends, repl)

Indices(s) == 0..(Len(s) - 1)

\* line 65: re.sub(r'Page \d+', '', text)
remove_page_labels(s) ==
    Substitute(s, 0,
        [p \in Indices(s) |->
            IF p + 5 <= Len(s) /\ Slice(s, p, p + 5) = "Page " /\ Run(s, p + 5, Range(Digits)) >= 1
            THEN p + 5 + Run(s, p + 5, Range(Digits))
            ELSE NoMatch],
        [p \in Indices(s) |-> ""])

\* the end of the match of r'\d+\s*$' with re.MULTILINE at index p: the
\* digits and the whitespace after them up to the end of the text, or up to
\* the last newline of that whitespace
trailing_number_end(s, p) ==
    LET q == p + Run(s, p, Range(Digits))
        r == q + Run(s, q, Whitespace)
        newlines == {x \in q..(r - 1) : CharAt(s, x) = "\n"}
    IN  IF q = p THEN NoMatch
        ELSE IF r = Len(s) THEN r
        ELSE IF newlines = {} THEN NoMatch
        ELSE CHOOSE x \in newlines : \A y \in newlines : y <= x

\* line 66: re.sub(r'\d+\s*$', '', text, flags=re.MULTILINE)
remove_trailing_numbers(s) ==
    Substitute(s, 0, [p \in Indices(s) |-> trailing_number_end(s, p)],
               [p \in Indices(s) |-> ""])

\* r'[A-D]\.\s+' at index p of s
option_marker_at(s, p) ==
    /\ Peek(s, p) \in UpperLetters
    /\ Peek(s, p + 1) = "."
    /\ Peek(s, p + 2) \in Whitespace

\* the indices of a line where r'[A-D]\.\s+' matches
MarkersOf(line) == {p \in Indices(line) : option_marker_at(line, p)}

\* lines 78-91: the pieces of a line cut before each marker from index
\* `from` on, stripped, the empty ones left out
RECURSIVE split_options(_, _)
split_options(line, from) ==
    LET later == {p \in MarkersOf(line) : p > from}
        next == IF later = {} THEN Len(line)
                ELSE CHOOSE p \in later : \A q \in later : p <= q
        piece == strip(Slice(line, from, next))
    IN  (IF piece # "" THEN <<piece>> ELSE <<>>)
        \o (IF next = Len(line) THEN <<>> ELSE split_options(line, next))

\* lines 73-95 for one line: re.search(r'[A-D]\.\s+.*[A-D]\.\s+', line) asks
\* for two markers
cleaned_lines_of(line) ==
    IF Cardinality(MarkersOf(line)) >= 2 THEN split_options(line, 0) ELSE <<line>>

\* lines 70-97
RECURSIVE split_option_lines(_)
split_option_lines(ls) ==
    IF ls = <<>> THEN <<>>
    ELSE cleaned_lines_of(Head(ls)) \o split_option_lines(Tail(ls))

\* '\n'.join(ls)
RECURSIVE join_lines(_)
join_lines(ls) ==
    IF ls = <<>> THEN ""
    ELSE IF Len(ls) = 1 THEN ls[1]
    ELSE ls[1] \o "\n" \o join_lines(Tail(ls))

\* the parts of a match of r'([A-D])\.\s+(\d+)\.\s+([A-Z]...' at index p:
\* the digits are s[d:e], the text starts at t; ok tells whether the
\* match gets as far as the capital letter
NumberedAt(s, p) ==
    LET d == p + 2 + Run(s, p + 2, Whitespace)
        e == d + Run(s, d, Range(Digits))
        t == e + 1 + Run(s, e + 1, Whitespace)
    IN  [ok |-> /\ option_marker_at(s, p)
                /\ e > d
                /\ Peek(s, e) = "."
                /\ t > e + 1
                /\ Peek(s, t) \in Range(UpperAlpha),
         d |-> d, e |-> e, t |-> t]

\* lines 109-110: the end of the match at index p; the lazy [^A-D]*? stops
\* at the first end of a line, where $ holds
contaminated_end(s, p) ==
    LET m == NumberedAt(s, p)
        x == m.t + 1 + RunNotIn(s, m.t + 1, {"\n"})
    IN  IF m.ok /\ \A k \in (m.t + 1)..(x - 1) : CharAt(s, k) \notin UpperLetters
        THEN x ELSE NoMatch

\* lines 102-106
fix_contaminated_option(s, p) ==
    LET m == NumberedAt(s, p)
        question_num == Slice(s, m.d, m.e)
    IN  CharAt(s, p) \o ". " \o question_num \o "\n" \o question_num \o ". "
        \o Slice(s, m.t, contaminated_end(s, p))

\* lines 109-110
fix_contaminated_options(s) ==
    Substitute(s, 0, [p \in Indices(s) |-> contaminated_end(s, p)],
               [p \in Indices(s) |->
                   IF contaminated_end(s, p) # NoMatch THEN fix_contaminated_option(s, p)
                   ELSE ""])

\* the index after (\n|^) at index p, NoMatch if neither matches
after_line_start(s, p) ==
    IF CharAt(s, p) = "\n" THEN p + 1 ELSE IF p = 0 THEN 0 ELSE NoMatch

\* what (\n|^) matched at index p
line_start(s, p) == IF CharAt(s, p) = "\n" THEN "\n" ELSE ""

\* the parts of a match of r'(\n|^)(\d+)\.\s+([A-Z][^A-D]*)' at index p
QuestionAt(s, p) ==
    LET start == after_line_start(s, p)
        d == IF start = NoMatch THEN Len(s) ELSE start
        e == d + Run(s, d, Range(Digits))
        t == e + 1 + Run(s, e + 1, Whitespace)
    IN  [ok |-> /\ start # NoMatch
                /\ e > d
                /\ Peek(s, e) = "."
                /\ t > e + 1
                /\ Peek(s, t) \in Range(UpperAlpha),
         d |-> d, e |-> e, t |-> t,
         end |-> t + 1 + RunNotIn(s, t + 1, UpperLetters)]

\* line 113: re.sub(r'(\n|^)(\d+)\.\s+([A-Z][^A-D]*)', r'\1\n\2. \3', text)
break_before_questions(s) ==
    Substitute(s, 0,
        [p \in Indices(s) |-> IF QuestionAt(s, p).ok THEN QuestionAt(s, p).end ELSE NoMatch],
        [p \in Indices(s) |->
            LET m == QuestionAt(s, p)
            IN  IF m.ok
                THEN line_start(s, p) \o "\n" \o Slice(s, m.d, m.e) \o ". "
                     \o Slice(s, m.t, m.end)
                ELSE ""])

\* the end of the match of r'(\n|^)([A-D])\.\s+' at index p
option_break_end(s, p) ==
    LET d == after_line_start(s, p)
    IN  IF d # NoMatch /\ option_marker_at(s, d)
        THEN d + 2 + Run(s, d + 2, Whitespace)
        ELSE NoMatch

\* line 116: re.sub(r'(\n|^)([A-D])\.\s+', r'\1\n\2. ', text)
break_before_options(s) ==
    Substitute(s, 0, [p \in Indices(s) |-> option_break_end(s, p)],
        [p \in Indices(s) |->
            IF option_break_end(s, p) # NoMatch
            THEN line_start(s, p) \o "\n" \o CharAt(s, after_line_start(s, p)) \o ". "
            ELSE ""])

\* the end of the match of r'\n\s*\n\s*\n+' at index p: after the last
\* newline of the whitespace that starts at p, when it holds three newlines
blank_lines_end(s, p) ==
    LET r == p + Run(s, p, Whitespace)
        newlines == {x \in p..(r - 1) : CharAt(s, x) = "\n"}
    IN  IF CharAt(s, p) = "\n" /\ Cardinality(newlines) >= 3
        THEN 1 + (CHOOSE x \in newlines : \A y \in newlines : y <= x)
        ELSE NoMatch

\* line 119: re.sub(r'\n\s*\n\s*\n+', '\n\n', text)
squeeze_blank_lines(s) ==
    Substitute(s, 0, [p \in Indices(s) |-> blank_lines_end(s, p)],
               [p \in Indices(s) |-> "\n\n"])

\* line 122: re.sub(r'[ \t]+', ' ', text)
squeeze_spaces(s) ==
    Substitute(s, 0,
        [p \in Indices(s) |->
            IF CharAt(s, p) \in {" ", "\t"} THEN p + Run(s, p, {" ", "\t"}) ELSE NoMatch],
        [p \in Indices(s) |-> " "])

\* lines 123-124: re.sub(pair, '\n', text) for a pair of characters
replace_pair(s, pair) ==
    Substitute(s, 0,
        [p \in Indices(s) |->
            IF p + 2 <= Len(s) /\ Slice(s, p, p + 2) = pair THEN p + 2 ELSE NoMatch],
        [p \in Indices(s) |-> "\n"])

\* lines 54-127
clean_text(text) ==
    IF text = "" THEN ""
    ELSE LET numbers_removed == remove_trailing_numbers(remove_page_labels(text))
             options_split == join_lines(split_option_lines(split_newline(numbers_removed)))
             broken == break_before_options(
                           break_before_questions(fix_contaminated_options(options_split)))
             squeezed == squeeze_spaces(squeeze_blank_lines(broken))
         IN  strip(replace_pair(replace_pair(squeezed, " \n"), "\n "))

MaxPages == 2

\* what page.extract_text() returns for a page; "" is a page without text
PageTexts ==
    {"",
     "1. How many?\nA. 12\nB. 13",
     "C. 44\nD. 149",
     "Page 3",
     "2. Who?\nA. Rome B. Athens C. Sparta D. Corinth",
     "D. 46. The dates",
     "3. In 149\n\n\n7",
     "A. 12 men\n  B. 7"}

InitPdf ==
    /\ ParsersIdle
    /\ MainIdle
    /\ ConsIdle
    /\ CleanIdle
    /\ pdf_pages \in UNION {[1..n -> PageTexts] : n \in 0..MaxPages}
    /\ pdf_page = 1
    /\ pdf_text_content = ""
    /\ pdf_txt_file = ""
    /\ pdf_pc = "pages"

\* the loop of line 26 is at a page
PdfAtPage ==
    /\ pdf_pc = "pages"
    /\ pdf_page <= Len(pdf_pages)

\* lines 26-29: the page has text
PdfAddPage ==
    /\ PdfAtPage
    /\ pdf_pages[pdf_page] # ""
    /\ pdf_text_content' = pdf_text_content \o pdf_pages[pdf_page] \o "\n"
    /\ pdf_page' = pdf_page + 1
    /\ UNCHANGED <<pdf_pages, pdf_txt_file, pdf_pc, notPdfVars>>

\* lines 26-28: extract_text() returns nothing
PdfSkipPage ==
    /\ PdfAtPage
    /\ pdf_pages[pdf_page] = ""
    /\ pdf_page' = pdf_page + 1
    /\ UNCHANGED <<pdf_pages, pdf_text_content, pdf_txt_file, pdf_pc, notPdfVars>>

\* lines 40-48
PdfCleanAndWrite ==
    /\ pdf_pc = "pages"
    /\ pdf_page > Len(pdf_pages)
    /\ pdf_txt_file' = clean_text(pdf_text_content)
    /\ pdf_pc' = "done"
    /\ UNCHANGED <<pdf_pages, pdf_page, pdf_text_content, notPdfVars>>

NextPdf ==
    \/ PdfAddPage
    \/ PdfSkipPage
    \/ PdfCleanAndWrite

SpecPdf == InitPdf /\ [][NextPdf]_vars

\* an option line whose text is or ends with a number
EndsWithNumber(line) ==
    /\ Len(line) >= 4
    /\ option_marker_at(line, 0)
    /\ isdigit(CharAt(line, Len(line) - 1))

\* the number a line ends with
TrailingNumber(line) ==
    SliceFrom(line, CHOOSE p \in Indices(line) :
                        /\ \A k \in p..(Len(line) - 1) : isdigit(CharAt(line, k))
                        /\ p > 0 => ~isdigit(CharAt(line, p - 1)))

\* C28: an option line of the extracted text whose text is or ends with a
\* number keeps that number in the text that clean_text returns.
C28_OptionNumbersKept ==
    (pdf_pc = "done") =>
        \A n \in DOMAIN split_newline(pdf_text_content) :
            LET line == split_newline(pdf_text_content)[n]
            IN  EndsWithNumber(line) => Contains(TrailingNumber(line), pdf_txt_file)

====
